---- MODULE Spec2Model ----
(***************************************************************************)
(* Reconciliation logic of terraform-provider-azuread:                     *)
(*   - the nested-collection replacers ApplicationSetAppRoles and          *)
(*     ApplicationSetOAuth2PermissionScopes,                               *)
(*   - the relation reconcilers ApplicationSetOwners and                   *)
(*     groupResourceUpdate (members, owners),                              *)
(*   - the create flow groupResourceCreate.                                *)
(* Every remote call of a handler is one step, so that the remote state    *)
(* between two calls of one handler is a state of the model.  The remote   *)
(* directory applies each call as sent, or fails it and applies nothing.   *)
(***************************************************************************)
EXTENDS Integers, Sequences, FiniteSets, TLC

VARIABLES
    handler,            \* the function under execution
    pc,                 \* position of the running handler
    err,                \* "" or the error the handler returned
    calls,              \* remote calls issued by the current run, in order
    prev,               \* <<>>, or <<[ok, ops]>>: how the previous run of the handler ended
    \* ---- application (nested collections, owners)
    application,        \* caller-supplied model: [ID, AppRoles, Scopes, Owners]
    newRoles,           \* *[]msgraph.AppRole argument
    newScopes,          \* *[]msgraph.PermissionScope argument
    app,                \* result of client.Get: the fetched collection pointer
    appRoles,           \* remote: application.appRoles
    scopes,             \* remote: application.api.oauth2PermissionScopes
    \* ---- relations (group / application owners and members)
    owners,             \* remote owners of the entity
    members,            \* remote members of the group
    desiredOwners,      \* configured owners
    desiredMembers,     \* configured members
    existingOwners,     \* ids returned by ListOwners
    existingMembers,    \* ids returned by ListMembers
    group,              \* local msgraph.Group model: [ID, Owners, Members]
    removeInitialOwner, \* groupResourceCreate's flag
    resourceId,         \* d.Id()
    preventDuplicateNames, \* d.Get("prevent_duplicate_names")
    directory,          \* ids of the remote groups carrying the configured display name
    locks,              \* names held through tf.LockByName
    \* ---- plan-time diff and concurrent applies
    diff,               \* *schema.ResourceDiff of groupResourceCustomizeDiff
    procs,              \* concurrent handler invocations: position and locals of each
    groups,             \* remote groups under concurrent applies, by object id
    \* ---- functions without remote state of their own
    input,              \* the arguments of the function applied
    output              \* what it returned

vars == <<handler, pc, err, calls, prev, application, newRoles, newScopes, app, appRoles,
          scopes, owners, members, desiredOwners, desiredMembers, existingOwners,
          existingMembers, group, removeInitialOwner, resourceId, preventDuplicateNames, directory, locks,
          diff, procs, groups, input, output>>

\* the state of the plan-time diff, of concurrent applies and of the functions
\* applied on their own
extVars == <<diff, procs, groups, input, output>>

appVars == <<application, newRoles, newScopes, app, appRoles, scopes>>
relVars == <<owners, members, desiredOwners, desiredMembers, existingOwners,
             existingMembers, group,
             removeInitialOwner, resourceId, preventDuplicateNames, directory, locks>>

-----------------------------------------------------------------------------
(* Bounds *)

\* longest nested collection (app roles, permission scopes)
MaxLen == 2

-----------------------------------------------------------------------------
(* Values *)

Range(s) == {s[i] : i \in DOMAIN s}

\* A Go pointer: Nil, or a pointer to a value.
Nil == <<>>
Ptr(v) == <<v>>
Deref(p) == p[1]

ItemIds == {"r1", "r2"}
ItemValues == {"a", "b"}
\* msgraph.AppRole / msgraph.PermissionScope: ID, IsEnabled and one descriptive field
Items == [id : ItemIds, isEnabled : BOOLEAN, value : ItemValues]

\* collections of at most MaxLen items with pairwise distinct ids
Colls ==
    UNION {{c \in [1..n -> Items] : \A i, j \in 1..n : i # j => c[i].id # c[j].id}
           : n \in 0..MaxLen}

CollPtrs == {Nil} \cup {Ptr(c) : c \in Colls}

\* stale copies a caller may hold in the application model it passes in
StaleCopies ==
    {Nil, Ptr(<<[id |-> "r1", isEnabled |-> FALSE, value |-> "a"]>>)}

Call(op, site, arg) == [op |-> op, site |-> site, arg |-> arg]

CallsOf(cs, op) == SelectSeq(cs, LAMBDA c : c.op = op)

-----------------------------------------------------------------------------
(* Nested-collection replacer *)

\* reflect.DeepEqual(*current, *desired) on two slices of items
DeepEqual(a, b) ==
    /\ Len(a) = Len(b)
    /\ \A i \in DOMAIN a :
          /\ a[i].id = b[i].id
          /\ a[i].isEnabled = b[i].isEnabled
          /\ a[i].value = b[i].value

\* for _, role := range *properties.AppRoles { role.IsEnabled = utils.Bool(false) }
\* `role` is the range loop's per-iteration copy of the slice element: the
\* assignment gives the copy a new pointer and the slice element keeps its own.
DisableLoop(coll) ==
    [i \in DOMAIN coll |->
        LET role == [coll[i] EXCEPT !.isEnabled = FALSE]
        IN  coll[i]]

\* variant of NoChanges: the comparison never reports equality
NoChangesNever(current, desired) == FALSE

\* variant of NoChanges: a collection the remote does not hold compares as empty
NoChangesNilAsEmpty(current, desired) ==
    DeepEqual(IF current = Nil THEN <<>> ELSE Deref(current), Deref(desired))

\* "don't update if no changes to be made": current != nil && DeepEqual(*current, *desired)
NoChanges(current, desired) ==
    current # Nil /\ DeepEqual(Deref(current), Deref(desired))

\* "first disable any existing ...": current != nil && len(*current) > 0
HasExisting(current) ==
    current # Nil /\ Len(Deref(current)) > 0

\* if newRoles == nil { newRoles = &[]msgraph.AppRole{} }
OrEmpty(p) == IF p = Nil THEN Ptr(<<>>) ELSE p

\* Entry of a replacer up to the decision what to send: the nil-ID check, the
\* defaulting of a nil argument, client.Get and the comparison with the fetched
\* collection.  `remote` is the collection the remote holds, `desired` the argument.
ReplacerGet(fn, remote, desired) ==
    /\ pc = fn
    /\ IF application.ID = Nil
       THEN /\ err' = "nil ID"
            /\ pc' = "done"
            /\ UNCHANGED <<app, calls>>
       ELSE \E status \in {"ok", "notfound", "error"} :
              /\ calls' = Append(calls, Call("Get", fn, <<>>))
              /\ IF status # "ok"
                 THEN /\ err' = (IF status = "notfound" THEN "not found" ELSE "retrieving")
                      /\ pc' = "done"
                      /\ UNCHANGED app
                 ELSE /\ app' = remote
                      /\ err' = ""
                      /\ pc' = IF NoChanges(remote, OrEmpty(desired))
                               THEN "done"
                               ELSE IF HasExisting(remote)
                                    THEN fn \o ":disable"
                                    ELSE fn \o ":replace"

\* variant of ReplacerDisable: a failed disable Update does not end the function
ReplacerDisableGoesOn(fn, remote) ==
    /\ pc = fn \o ":disable"
    /\ LET properties == Ptr(DisableLoop(Deref(app)))
       IN  /\ calls' = Append(calls, Call("Update", "disable", Deref(properties)))
           /\ \E ok \in BOOLEAN :
                IF ok
                THEN /\ remote' = properties
                     /\ pc' = fn \o ":replace"
                     /\ UNCHANGED err
                ELSE /\ err' = "disabling"
                     /\ pc' = fn \o ":replace"
                     /\ UNCHANGED remote

\* client.Update(ctx, properties) with the fetched collection after the disable loop
ReplacerDisable(fn, remote) ==
    /\ pc = fn \o ":disable"
    /\ LET properties == Ptr(DisableLoop(Deref(app)))
       IN  /\ calls' = Append(calls, Call("Update", "disable", Deref(properties)))
           /\ \E ok \in BOOLEAN :
                IF ok
                THEN /\ remote' = properties
                     /\ pc' = fn \o ":replace"
                     /\ UNCHANGED err
                ELSE /\ err' = "disabling"
                     /\ pc' = "done"
                     /\ UNCHANGED remote

\* client.Update(ctx, properties) with the new collection
ReplacerReplace(fn, remote, desired) ==
    /\ pc = fn \o ":replace"
    /\ LET properties == OrEmpty(desired)
       IN  /\ calls' = Append(calls, Call("Update", "replace", Deref(properties)))
           /\ \E ok \in BOOLEAN :
                IF ok
                THEN /\ remote' = properties
                     /\ UNCHANGED err
                ELSE /\ err' = "setting"
                     /\ UNCHANGED remote
           /\ pc' = "done"

ApplicationSetAppRoles_Get ==
    /\ ReplacerGet("ApplicationSetAppRoles", appRoles, newRoles)
    /\ UNCHANGED <<handler, prev, application, newRoles, newScopes, appRoles, scopes>>
    /\ UNCHANGED relVars
    /\ UNCHANGED extVars

ApplicationSetAppRoles_Disable ==
    /\ ReplacerDisable("ApplicationSetAppRoles", appRoles)
    /\ UNCHANGED <<handler, prev, application, newRoles, newScopes, app, scopes>>
    /\ UNCHANGED relVars
    /\ UNCHANGED extVars

ApplicationSetAppRoles_Replace ==
    /\ ReplacerReplace("ApplicationSetAppRoles", appRoles, newRoles)
    /\ UNCHANGED <<handler, prev, application, newRoles, newScopes, app, scopes>>
    /\ UNCHANGED relVars
    /\ UNCHANGED extVars

ApplicationSetOAuth2PermissionScopes_Get ==
    /\ ReplacerGet("ApplicationSetOAuth2PermissionScopes", scopes, newScopes)
    /\ UNCHANGED <<handler, prev, application, newRoles, newScopes, appRoles, scopes>>
    /\ UNCHANGED relVars
    /\ UNCHANGED extVars

ApplicationSetOAuth2PermissionScopes_Disable ==
    /\ ReplacerDisable("ApplicationSetOAuth2PermissionScopes", scopes)
    /\ UNCHANGED <<handler, prev, application, newRoles, newScopes, app, appRoles>>
    /\ UNCHANGED relVars
    /\ UNCHANGED extVars

ApplicationSetOAuth2PermissionScopes_Replace ==
    /\ ReplacerReplace("ApplicationSetOAuth2PermissionScopes", scopes, newScopes)
    /\ UNCHANGED <<handler, prev, application, newRoles, newScopes, app, appRoles>>
    /\ UNCHANGED relVars
    /\ UNCHANGED extVars

\* what is kept of a completed run: whether it returned without error, and the
\* calls it issued before its read-back, by name and call site
Summary(e, cs) ==
    [ok  |-> e = "",
     ops |-> {<<cs[i].op, cs[i].site>> : i \in {j \in DOMAIN cs : cs[j].site # "groupResourceRead"}}]

\* The caller runs the same function again with the same arguments: a new
\* apply, which builds its models and locals afresh.
Again ==
    /\ pc = "done"
    /\ prev' = <<Summary(err, calls)>>
    /\ pc' = handler
    /\ err' = ""
    /\ calls' = <<>>
    /\ app' = Nil
    /\ existingOwners' = <<>>
    /\ existingMembers' = <<>>
    /\ group' = [ID |-> Nil, Owners |-> <<>>, Members |-> <<>>]
    /\ application' = [application EXCEPT !.Owners = <<>>]
    /\ UNCHANGED <<handler, newRoles, newScopes, appRoles, scopes>>
    /\ UNCHANGED <<owners, members, desiredOwners, desiredMembers,
                   removeInitialOwner, resourceId, preventDuplicateNames, directory, locks>>
    /\ UNCHANGED extVars

\* no plan-time diff and no concurrent applies
ExtIdle ==
    /\ diff = <<>>
    /\ procs = <<>>
    /\ groups = <<>>
    /\ input = <<>>
    /\ output = <<>>

RelIdle ==
    /\ owners = {}
    /\ members = {}
    /\ desiredOwners = <<>>
    /\ desiredMembers = <<>>
    /\ existingOwners = <<>>
    /\ existingMembers = <<>>
    /\ group = [ID |-> Nil, Owners |-> <<>>, Members |-> <<>>]
    /\ removeInitialOwner = FALSE
    /\ resourceId = ""
    /\ preventDuplicateNames = FALSE
    /\ directory = <<>>
    /\ locks = {}

InitReplacer ==
    /\ ExtIdle
    /\ handler \in {"ApplicationSetAppRoles", "ApplicationSetOAuth2PermissionScopes"}
    /\ pc = handler
    /\ err = ""
    /\ calls = <<>>
    /\ prev = <<>>
    /\ app = Nil
    /\ \E stale \in StaleCopies :
          application \in {[ID |-> id, AppRoles |-> stale, Scopes |-> stale, Owners |-> <<>>]
                             : id \in (IF stale = Nil THEN {Nil, Ptr("app1")} ELSE {Ptr("app1")})}
    /\ IF pc = "ApplicationSetAppRoles"
       THEN /\ appRoles \in CollPtrs
            /\ newRoles \in CollPtrs
            /\ scopes = Nil
            /\ newScopes = Nil
       ELSE /\ scopes \in CollPtrs
            /\ newScopes \in CollPtrs
            /\ appRoles = Nil
            /\ newRoles = Nil
    /\ RelIdle

NextReplacer ==
    \/ ApplicationSetAppRoles_Get
    \/ ApplicationSetAppRoles_Disable
    \/ ApplicationSetAppRoles_Replace
    \/ ApplicationSetOAuth2PermissionScopes_Get
    \/ ApplicationSetOAuth2PermissionScopes_Disable
    \/ ApplicationSetOAuth2PermissionScopes_Replace
    \/ Again

SpecReplacer == InitReplacer /\ [][NextReplacer]_vars

-----------------------------------------------------------------------------
(* Properties of the nested-collection replacer (SpecReplacer) *)

\* the argument and the remote collection of the function under execution
Desired == OrEmpty(IF handler = "ApplicationSetAppRoles" THEN newRoles ELSE newScopes)
RemoteColl == IF handler = "ApplicationSetAppRoles" THEN appRoles ELSE scopes
Updates == CallsOf(calls, "Update")
\* client.Get returned a result in the current run
Fetched == calls # <<>> /\ calls[1].op = "Get" /\ err # "not found" /\ err # "retrieving"
Returned == pc = "done"
Succeeded == pc = "done" /\ err = ""

\* the items of `sent` are those of `current`, each with isEnabled false and
\* every other field as fetched
DisabledCopy(sent, current) ==
    /\ Len(sent) = Len(current)
    /\ \A k \in DOMAIN current :
          /\ sent[k].isEnabled = FALSE
          /\ sent[k].id = current[k].id
          /\ sent[k].value = current[k].value

\* C1: when the fetched collection is non-empty and differs from the desired
\* one, the first Update call carries every current item with its enabled flag
\* false and its other fields unchanged.
C1_DisableCallDisablesEveryItem ==
    \A i \in DOMAIN calls :
        (calls[i].op = "Update" /\ calls[i].site = "disable")
            => DisabledCopy(calls[i].arg, Deref(app))

\* C2: no item is removed from or changed in the remote collection by the
\* replace call while its remote enabled flag is true.
C2_NoEnabledItemDroppedOrAltered ==
    [][(pc = handler \o ":replace" /\ RemoteColl' # RemoteColl /\ RemoteColl # Nil)
          => \A it \in Range(Deref(RemoteColl)) :
                it.isEnabled => it \in Range(Deref(RemoteColl'))]_vars

\* C3: a completed replacement of a non-empty current collection that differs
\* from D consists of exactly two Update calls, the disable call on the current
\* items and then the call carrying exactly D; with an empty or absent current
\* collection it is the one call carrying D.
C3_DisableThenReplace ==
    (Succeeded /\ Fetched /\ ~NoChanges(app, Desired))
        => IF HasExisting(app)
           THEN /\ Len(Updates) = 2
                /\ DisabledCopy(Updates[1].arg, Deref(app))
                /\ Updates[2].arg = Deref(Desired)
           ELSE /\ Len(Updates) = 1
                /\ Updates[1].arg = Deref(Desired)

\* The number and order of the calls of C3, without the content of the first:
\* two Update calls, issued by the disable step and by the replace step, the
\* first carrying the ids of the current items and the second exactly D.
C3_CountAndOrder ==
    (Succeeded /\ Fetched /\ ~NoChanges(app, Desired))
        => IF HasExisting(app)
           THEN /\ Len(Updates) = 2
                /\ Updates[1].site = "disable"
                /\ [k \in DOMAIN Updates[1].arg |-> Updates[1].arg[k].id]
                      = [k \in DOMAIN Deref(app) |-> Deref(app)[k].id]
                /\ Updates[2].site = "replace"
                /\ Updates[2].arg = Deref(Desired)
           ELSE /\ Len(Updates) = 1
                /\ Updates[1].site = "replace"
                /\ Updates[1].arg = Deref(Desired)

\* C4: when the collection fetched from the remote is element-wise equal to
\* the desired one the function returns without any Update call, whatever the
\* caller-supplied copy holds; and a run that follows a successful run with
\* the same desired collection issues no Update call.
C4_ReplaceIdempotent ==
    /\ (Fetched /\ app # Nil /\ DeepEqual(Deref(app), Deref(Desired)))
          => (Updates = <<>> /\ Succeeded)
    /\ (prev # <<>> /\ prev[1].ok) => Updates = <<>>

\* C4 witness: a second run has fetched and returned after a first run that
\* replaced a non-empty collection with the non-empty D in two Update calls,
\* the caller-supplied copy being different from D.
C4_Witness ==
    /\ prev # <<>>
    /\ prev[1].ok
    /\ {<<"Update", "disable">>, <<"Update", "replace">>} \subseteq prev[1].ops
    /\ Succeeded /\ Fetched
    /\ Len(Deref(Desired)) > 0
    /\ application.AppRoles # Desired

\* C5 as stated: with D empty or nil the final Update call writing an empty
\* collection is issued for every current collection, non-empty, empty or absent.
C5_EmptyDesiredAlwaysWritten ==
    (Succeeded /\ Fetched /\ Deref(Desired) = <<>>)
        => /\ Updates # <<>>
           /\ Updates[Len(Updates)].site = "replace"
           /\ Updates[Len(Updates)].arg = <<>>

\* C5 amended: with D empty or nil the final Update call writing an empty
\* collection is issued when the fetched collection is non-empty or absent;
\* when it is present and empty the function returns with no Update call.
C5_EmptyDesiredWrittenUnlessAlreadyEmpty ==
    (Succeeded /\ Fetched /\ Deref(Desired) = <<>>)
        => IF app = Nil \/ Len(Deref(app)) > 0
           THEN /\ Updates # <<>>
                /\ Updates[Len(Updates)].site = "replace"
                /\ Updates[Len(Updates)].arg = <<>>
                /\ RemoteColl = Ptr(<<>>)
           ELSE Updates = <<>>

\* C5 witness: D passed as nil, a non-empty collection fetched, and the run
\* returned after clearing it.
C5_Witness ==
    /\ Succeeded /\ Fetched
    /\ (IF handler = "ApplicationSetAppRoles" THEN newRoles ELSE newScopes) = Nil
    /\ HasExisting(app)
    /\ Len(Updates) = 2
    /\ RemoteColl = Ptr(<<>>)

-----------------------------------------------------------------------------
(* Relation reconciliation: values and helpers *)

\* the authenticated principal, meta.(*clients.Client).Claims.ObjectId
callerId == "caller"

OwnerIds == {"caller", "o1", "o2"}
\* an owner id as a configuration may spell it: "CALLER" is the caller's id in upper case
ConfigOwnerIds == {"caller", "CALLER", "o1"}
ExistingMemberIds == {"u1", "u2", "u3"}
ConfigMemberIds == {"u2", "u4"}

\* sequences without repetition: the listings of a set
Perms(S) == {q \in [1..Cardinality(S) -> S] : \A i, j \in DOMAIN q : i # j => q[i] # q[j]}
NoDupSeqs(S) == UNION {Perms(T) : T \in SUBSET S}

\* v.(*schema.Set).List(): the elements of a configured set, in the set's own
\* (hash) order, which is a function of the set
RECURSIVE SetList(_)
SetList(S) ==
    IF S = {} THEN <<>>
    ELSE LET x == CHOOSE y \in S : TRUE
         IN  <<x>> \o SetList(S \ {x})

\* utils.Difference(a, b): the elements of a that are not in b, in a's order;
\* the nil slice (<<>>) when there is none
Difference(a, b) == SelectSeq(a, LAMBDA x : x \notin Range(b))

\* strings.EqualFold on the ids of the model
Fold(id) == IF id = "CALLER" THEN "caller" ELSE id
EqualFold(a, b) == Fold(a) = Fold(b)

\* variant of FirstStep: a step without work is not passed over
FirstStepNoSkip(order, work, after) ==
    IF order = <<>> THEN after ELSE order[1]

\* the first step of `order` that has work to do, `after` when none has;
\* `work` maps a step to the slice its call would carry (nil: the step is skipped)
FirstStep(order, work, after) ==
    LET todo == SelectSeq(order, LAMBDA st : work[st] # <<>>)
    IN  IF todo = <<>> THEN after ELSE todo[1]

\* the steps of `order` that follow step st
StepsAfter(order, st) ==
    LET k == CHOOSE i \in DOMAIN order : order[i] = st
    IN  SubSeq(order, k + 1, Len(order))

-----------------------------------------------------------------------------
(* ApplicationSetOwners *)

\* the remove block (lines 691-695) precedes the add block (lines 697-705)
ApplicationSetOwnersOrder ==
    <<"ApplicationSetOwners:removeOwners", "ApplicationSetOwners:addOwners">>

\* variant of ApplicationSetOwnersWork: every desired owner is added again
ApplicationSetOwnersWorkAddAll(ex) ==
    [st \in Range(ApplicationSetOwnersOrder) |->
        IF st = "ApplicationSetOwners:removeOwners"
        THEN Difference(ex, desiredOwners)
        ELSE desiredOwners]

\* ownersForRemoval and ownersToAdd for the listing `ex`
ApplicationSetOwnersWork(ex) ==
    [st \in Range(ApplicationSetOwnersOrder) |->
        IF st = "ApplicationSetOwners:removeOwners"
        THEN Difference(ex, desiredOwners)
        ELSE Difference(desiredOwners, ex)]

\* entry: nil-ID check, client.ListOwners, the two differences
ApplicationSetOwners_List ==
    /\ pc = "ApplicationSetOwners"
    /\ IF application.ID = Nil
       THEN /\ err' = "nil ID"
            /\ pc' = "done"
            /\ UNCHANGED <<calls, existingOwners>>
       ELSE /\ calls' = Append(calls, Call("ListOwners", "ApplicationSetOwners", <<>>))
            /\ \E ok \in BOOLEAN :
                 IF ok
                 THEN /\ existingOwners' \in Perms(owners)
                      /\ pc' = FirstStep(ApplicationSetOwnersOrder,
                                         ApplicationSetOwnersWork(existingOwners'), "done")
                      /\ UNCHANGED err
                 ELSE /\ err' = "retrieving owners"
                      /\ pc' = "done"
                      /\ UNCHANGED existingOwners
    /\ UNCHANGED <<handler, prev, application, newRoles, newScopes, app, appRoles, scopes>>
    /\ UNCHANGED <<owners, members, desiredOwners, desiredMembers, existingMembers, group,
                   removeInitialOwner, resourceId, preventDuplicateNames, directory, locks>>
    /\ UNCHANGED extVars

\* client.RemoveOwners(ctx, *application.ID, &ownersForRemoval)
ApplicationSetOwners_Remove ==
    /\ pc = "ApplicationSetOwners:removeOwners"
    /\ LET ownersForRemoval == ApplicationSetOwnersWork(existingOwners)[pc]
       IN  /\ calls' = Append(calls, Call("RemoveOwners", "ApplicationSetOwners", ownersForRemoval))
           /\ \E ok \in BOOLEAN :
                IF ok
                THEN /\ owners' = owners \ Range(ownersForRemoval)
                     /\ pc' = FirstStep(StepsAfter(ApplicationSetOwnersOrder, pc),
                                        ApplicationSetOwnersWork(existingOwners), "done")
                     /\ UNCHANGED err
                ELSE /\ err' = "removing owner"
                     /\ pc' = "done"
                     /\ UNCHANGED owners
    /\ UNCHANGED <<handler, prev, application, newRoles, newScopes, app, appRoles, scopes>>
    /\ UNCHANGED <<members, desiredOwners, desiredMembers, existingOwners, existingMembers, group,
                   removeInitialOwner, resourceId, preventDuplicateNames, directory, locks>>
    /\ UNCHANGED extVars

\* application.AppendOwner for each owner to add, then client.AddOwners(ctx, application)
ApplicationSetOwners_Add ==
    /\ pc = "ApplicationSetOwners:addOwners"
    /\ LET ownersToAdd == ApplicationSetOwnersWork(existingOwners)[pc]
           appended == application.Owners \o ownersToAdd
       IN  /\ application' = [application EXCEPT !.Owners = appended]
           /\ calls' = Append(calls, Call("AddOwners", "ApplicationSetOwners", appended))
           /\ \E ok \in BOOLEAN :
                IF ok
                THEN /\ owners' = owners \cup Range(appended)
                     /\ pc' = FirstStep(StepsAfter(ApplicationSetOwnersOrder, pc),
                                        ApplicationSetOwnersWork(existingOwners), "done")
                     /\ UNCHANGED err
                ELSE /\ err' = "adding owners"
                     /\ pc' = "done"
                     /\ UNCHANGED owners
    /\ UNCHANGED <<handler, prev, newRoles, newScopes, app, appRoles, scopes>>
    /\ UNCHANGED <<members, desiredOwners, desiredMembers, existingOwners, existingMembers, group,
                   removeInitialOwner, resourceId, preventDuplicateNames, directory, locks>>
    /\ UNCHANGED extVars

-----------------------------------------------------------------------------
(* groupResourceUpdate *)

groupResourceName == "azuread_group"
LockName(id) == groupResourceName \o "." \o id

\* groupFindByName(ctx, client, displayName): the groups that carry the name
groupFindByName == directory

\* variant of UpdateDuplicateCheck: the comparison of groupResourceCustomizeDiff,
\* which takes the group itself for the duplicate
UpdateDuplicateCheckOwnId(result, groupId) ==
    LET bad == SelectSeq(result, LAMBDA g : g = Nil \/ Deref(g) = groupId)
    IN  IF bad = <<>> THEN ""
        ELSE IF bad[1] = Nil THEN "nil object ID"
        ELSE "duplicate of " \o Deref(bad[1])

\* the loop over the lookup's result in groupResourceUpdate: the first group
\* with a nil id or with an id other than groupId ends the update
UpdateDuplicateCheck(result, groupId) ==
    LET bad == SelectSeq(result, LAMBDA g : g = Nil \/ Deref(g) # groupId)
    IN  IF bad = <<>> THEN ""
        ELSE IF bad[1] = Nil THEN "nil object ID"
        ELSE "duplicate of " \o Deref(bad[1])

\* members: the remove block (lines 318-322) precedes the add block (lines 324-332)
UpdateMembersOrder ==
    <<"groupResourceUpdate:removeMembers", "groupResourceUpdate:addMembers">>

\* variant of UpdateOwnersOrder: the remove block first
UpdateOwnersOrderRemoveFirst ==
    <<"groupResourceUpdate:removeOwners", "groupResourceUpdate:addOwners">>

\* owners: the add block (lines 346-354) precedes the remove block (lines 356-360)
UpdateOwnersOrder ==
    <<"groupResourceUpdate:addOwners", "groupResourceUpdate:removeOwners">>

\* variant of UpdateMembersWork: every desired member is added again
UpdateMembersWorkAddAll(ex) ==
    [st \in Range(UpdateMembersOrder) |->
        IF st = "groupResourceUpdate:removeMembers"
        THEN Difference(ex, desiredMembers)
        ELSE desiredMembers]

\* variant of UpdateMembersWork: the two differences exchanged
UpdateMembersWorkSwapped(ex) ==
    [st \in Range(UpdateMembersOrder) |->
        IF st = "groupResourceUpdate:removeMembers"
        THEN Difference(desiredMembers, ex)
        ELSE Difference(ex, desiredMembers)]

\* membersForRemoval and membersToAdd for the listing `ex`
UpdateMembersWork(ex) ==
    [st \in Range(UpdateMembersOrder) |->
        IF st = "groupResourceUpdate:removeMembers"
        THEN Difference(ex, desiredMembers)
        ELSE Difference(desiredMembers, ex)]

\* variant of UpdateOwnersWork: every fetched owner is removed and every
\* desired owner added
UpdateOwnersWorkReplaceAll(ex) ==
    [st \in Range(UpdateOwnersOrder) |->
        IF st = "groupResourceUpdate:removeOwners"
        THEN ex
        ELSE desiredOwners]

\* ownersForRemoval and ownersToAdd for the listing `ex`
UpdateOwnersWork(ex) ==
    [st \in Range(UpdateOwnersOrder) |->
        IF st = "groupResourceUpdate:removeOwners"
        THEN Difference(ex, desiredOwners)
        ELSE Difference(desiredOwners, ex)]

\* d.GetOk(key): ok is false for the zero value, the empty set
GetOk(v) == v # <<>>

\* variant of UpdateReturn: the error is kept and the update goes on to the read-back
UpdateReturnGoesOn(e) ==
    /\ pc' = "groupResourceUpdate:read"
    /\ err' = e
    /\ locks' = locks

\* a return of groupResourceUpdate: the deferred tf.UnlockByName runs
UpdateReturn(e) ==
    /\ pc' = "done"
    /\ err' = e
    /\ locks' = locks \ {LockName(resourceId)}

UpdateGoto(p) ==
    /\ pc' = p
    /\ UNCHANGED <<err, locks>>

\* entry: tf.LockByName (waits while the name is held), then the duplicate-name
\* check when the guard is on; a return from the check runs the deferred unlock
groupResourceUpdate_Guard ==
    /\ pc = "groupResourceUpdate"
    /\ LockName(resourceId) \notin locks
    /\ LET held == locks \cup {LockName(resourceId)}
           released == held \ {LockName(resourceId)}
       IN  IF preventDuplicateNames
           THEN /\ calls' = Append(calls, Call("List", "groupFindByName", <<>>))
                /\ \E ok \in BOOLEAN :
                     IF ~ok
                     THEN /\ pc' = "done"
                          /\ err' = "could not check for existing groups"
                          /\ locks' = released
                     ELSE LET e == UpdateDuplicateCheck(groupFindByName, resourceId)
                          IN  IF e # ""
                              THEN /\ pc' = "done"
                                   /\ err' = e
                                   /\ locks' = released
                              ELSE /\ pc' = "groupResourceUpdate:update"
                                   /\ err' = err
                                   /\ locks' = held
           ELSE /\ pc' = "groupResourceUpdate:update"
                /\ locks' = held
                /\ UNCHANGED <<calls, err>>
    /\ group' = [ID |-> Ptr(resourceId), Owners |-> <<>>, Members |-> <<>>]
    /\ UNCHANGED <<handler, prev, application, newRoles, newScopes, app, appRoles, scopes>>
    /\ UNCHANGED <<owners, members, desiredOwners, desiredMembers, existingOwners, existingMembers,
                   removeInitialOwner, resourceId, preventDuplicateNames, directory>>
    /\ UNCHANGED extVars

\* client.Update(ctx, group)
groupResourceUpdate_Update ==
    /\ pc = "groupResourceUpdate:update"
    /\ calls' = Append(calls, Call("Update", "groupResourceUpdate", <<>>))
    /\ \E ok \in BOOLEAN :
         IF ok THEN UpdateGoto("groupResourceUpdate:members")
               ELSE UpdateReturn("updating group")
    /\ UNCHANGED <<handler, prev, application, newRoles, newScopes, app, appRoles, scopes>>
    /\ UNCHANGED <<owners, members, desiredOwners, desiredMembers, existingOwners, existingMembers, group,
                   removeInitialOwner, resourceId, preventDuplicateNames, directory>>
    /\ UNCHANGED extVars

\* if v, ok := d.GetOk("members"); ok && d.HasChange("members") { client.ListMembers ... }
groupResourceUpdate_Members ==
    /\ pc = "groupResourceUpdate:members"
    /\ \E hasChange \in BOOLEAN :
         IF GetOk(desiredMembers) /\ hasChange
         THEN /\ calls' = Append(calls, Call("ListMembers", "groupResourceUpdate", <<>>))
              /\ \E ok \in BOOLEAN :
                   IF ok
                   THEN /\ existingMembers' \in Perms(members)
                        /\ UpdateGoto(FirstStep(UpdateMembersOrder, UpdateMembersWork(existingMembers'),
                                                "groupResourceUpdate:owners"))
                   ELSE /\ UpdateReturn("could not retrieve members")
                        /\ UNCHANGED existingMembers
         ELSE /\ UpdateGoto("groupResourceUpdate:owners")
              /\ UNCHANGED <<calls, existingMembers>>
    /\ UNCHANGED <<handler, prev, application, newRoles, newScopes, app, appRoles, scopes>>
    /\ UNCHANGED <<owners, members, desiredOwners, desiredMembers, existingOwners, group,
                   removeInitialOwner, resourceId, preventDuplicateNames, directory>>
    /\ UNCHANGED extVars

\* client.RemoveMembers(ctx, d.Id(), &membersForRemoval)
groupResourceUpdate_RemoveMembers ==
    /\ pc = "groupResourceUpdate:removeMembers"
    /\ LET membersForRemoval == UpdateMembersWork(existingMembers)[pc]
       IN  /\ calls' = Append(calls, Call("RemoveMembers", "groupResourceUpdate", membersForRemoval))
           /\ \E ok \in BOOLEAN :
                IF ok
                THEN /\ members' = members \ Range(membersForRemoval)
                     /\ UpdateGoto(FirstStep(StepsAfter(UpdateMembersOrder, pc),
                                             UpdateMembersWork(existingMembers),
                                             "groupResourceUpdate:owners"))
                ELSE /\ UpdateReturn("could not remove members")
                     /\ UNCHANGED members
    /\ UNCHANGED <<handler, prev, application, newRoles, newScopes, app, appRoles, scopes>>
    /\ UNCHANGED <<owners, desiredOwners, desiredMembers, existingOwners, existingMembers, group,
                   removeInitialOwner, resourceId, preventDuplicateNames, directory>>
    /\ UNCHANGED extVars

\* group.AppendMember for each member to add, then client.AddMembers(ctx, &group)
groupResourceUpdate_AddMembers ==
    /\ pc = "groupResourceUpdate:addMembers"
    /\ LET membersToAdd == UpdateMembersWork(existingMembers)[pc]
           appended == group.Members \o membersToAdd
       IN  /\ group' = [group EXCEPT !.Members = appended]
           /\ calls' = Append(calls, Call("AddMembers", "groupResourceUpdate", appended))
           /\ \E ok \in BOOLEAN :
                IF ok
                THEN /\ members' = members \cup Range(appended)
                     /\ UpdateGoto(FirstStep(StepsAfter(UpdateMembersOrder, pc),
                                             UpdateMembersWork(existingMembers),
                                             "groupResourceUpdate:owners"))
                ELSE /\ UpdateReturn("could not add members")
                     /\ UNCHANGED members
    /\ UNCHANGED <<handler, prev, application, newRoles, newScopes, app, appRoles, scopes>>
    /\ UNCHANGED <<owners, desiredOwners, desiredMembers, existingOwners, existingMembers,
                   removeInitialOwner, resourceId, preventDuplicateNames, directory>>
    /\ UNCHANGED extVars

\* if v, ok := d.GetOk("owners"); ok && d.HasChange("owners") { client.ListOwners ... }
groupResourceUpdate_Owners ==
    /\ pc = "groupResourceUpdate:owners"
    /\ \E hasChange \in BOOLEAN :
         IF GetOk(desiredOwners) /\ hasChange
         THEN /\ calls' = Append(calls, Call("ListOwners", "groupResourceUpdate", <<>>))
              /\ \E ok \in BOOLEAN :
                   IF ok
                   THEN /\ existingOwners' \in Perms(owners)
                        /\ UpdateGoto(FirstStep(UpdateOwnersOrder, UpdateOwnersWork(existingOwners'),
                                                "groupResourceUpdate:read"))
                   ELSE /\ UpdateReturn("could not retrieve owners")
                        /\ UNCHANGED existingOwners
         ELSE /\ UpdateGoto("groupResourceUpdate:read")
              /\ UNCHANGED <<calls, existingOwners>>
    /\ UNCHANGED <<handler, prev, application, newRoles, newScopes, app, appRoles, scopes>>
    /\ UNCHANGED <<owners, members, desiredOwners, desiredMembers, existingMembers, group,
                   removeInitialOwner, resourceId, preventDuplicateNames, directory>>
    /\ UNCHANGED extVars

\* group.AppendOwner for each owner to add, then client.AddOwners(ctx, &group)
groupResourceUpdate_AddOwners ==
    /\ pc = "groupResourceUpdate:addOwners"
    /\ LET ownersToAdd == UpdateOwnersWork(existingOwners)[pc]
           appended == group.Owners \o ownersToAdd
       IN  /\ group' = [group EXCEPT !.Owners = appended]
           /\ calls' = Append(calls, Call("AddOwners", "groupResourceUpdate", appended))
           /\ \E ok \in BOOLEAN :
                IF ok
                THEN /\ owners' = owners \cup Range(appended)
                     /\ UpdateGoto(FirstStep(StepsAfter(UpdateOwnersOrder, pc),
                                             UpdateOwnersWork(existingOwners),
                                             "groupResourceUpdate:read"))
                ELSE /\ UpdateReturn("could not add owners")
                     /\ UNCHANGED owners
    /\ UNCHANGED <<handler, prev, application, newRoles, newScopes, app, appRoles, scopes>>
    /\ UNCHANGED <<members, desiredOwners, desiredMembers, existingOwners, existingMembers,
                   removeInitialOwner, resourceId, preventDuplicateNames, directory>>
    /\ UNCHANGED extVars

\* client.RemoveOwners(ctx, d.Id(), &ownersForRemoval)
groupResourceUpdate_RemoveOwners ==
    /\ pc = "groupResourceUpdate:removeOwners"
    /\ LET ownersForRemoval == UpdateOwnersWork(existingOwners)[pc]
       IN  /\ calls' = Append(calls, Call("RemoveOwners", "groupResourceUpdate", ownersForRemoval))
           /\ \E ok \in BOOLEAN :
                IF ok
                THEN /\ owners' = owners \ Range(ownersForRemoval)
                     /\ UpdateGoto(FirstStep(StepsAfter(UpdateOwnersOrder, pc),
                                             UpdateOwnersWork(existingOwners),
                                             "groupResourceUpdate:read"))
                ELSE /\ UpdateReturn("could not remove owners")
                     /\ UNCHANGED owners
    /\ UNCHANGED <<handler, prev, application, newRoles, newScopes, app, appRoles, scopes>>
    /\ UNCHANGED <<members, desiredOwners, desiredMembers, existingOwners, existingMembers, group,
                   removeInitialOwner, resourceId, preventDuplicateNames, directory>>
    /\ UNCHANGED extVars

-----------------------------------------------------------------------------
(* groupResourceRead, as the last step of update and create *)

\* client.Get, client.ListOwners, client.ListMembers; a group that is not
\* found is removed from state and is no error
ReadCalls(outcome) ==
    <<Call("Get", "groupResourceRead", <<>>)>>
    \o (IF outcome \in {"ok", "ownersError", "membersError"}
        THEN <<Call("ListOwners", "groupResourceRead", <<>>)>> ELSE <<>>)
    \o (IF outcome \in {"ok", "membersError"}
        THEN <<Call("ListMembers", "groupResourceRead", <<>>)>> ELSE <<>>)

\* variant of groupResourceRead: a group that is not found keeps its id in state
groupResourceReadKeepsId(outcome) ==
    /\ calls' = calls \o ReadCalls(outcome)
    /\ resourceId' = resourceId
    /\ err' = IF outcome \in {"ok", "notfound"} THEN err ELSE "read: " \o outcome
    /\ pc' = "done"

groupResourceRead(outcome) ==
    /\ calls' = calls \o ReadCalls(outcome)
    /\ resourceId' = IF outcome = "notfound" THEN "" ELSE resourceId
    /\ err' = IF outcome \in {"ok", "notfound"} THEN err ELSE "read: " \o outcome
    /\ pc' = "done"

ReadOutcomes == {"ok", "notfound", "getError", "ownersError", "membersError"}

\* return groupResourceRead(ctx, d, meta), and the deferred unlock
groupResourceUpdate_Read ==
    /\ pc = "groupResourceUpdate:read"
    /\ \E outcome \in ReadOutcomes : groupResourceRead(outcome)
    /\ locks' = locks \ {LockName(resourceId)}
    /\ UNCHANGED <<handler, prev, application, newRoles, newScopes, app, appRoles, scopes>>
    /\ UNCHANGED <<owners, members, desiredOwners, desiredMembers, existingOwners, existingMembers, group,
                   removeInitialOwner, preventDuplicateNames, directory>>
    /\ UNCHANGED extVars

-----------------------------------------------------------------------------
(* groupResourceCreate *)

\* the id the remote assigns to the created group
NewGroupId == "g9"

\* variant of RemoveInitialOwnerFor: the comparison is case-sensitive
RemoveInitialOwnerForCaseSensitive(ownerList) ==
    ~ \E i \in DOMAIN ownerList : callerId = ownerList[i]

\* for _, o := range owners { ...; if strings.EqualFold(callerId, o) { removeInitialOwner = false } }
RemoveInitialOwnerFor(ownerList) ==
    ~ \E i \in DOMAIN ownerList : EqualFold(callerId, ownerList[i])

\* variant of CreateStepAfter: the members block is passed over
CreateStepAfterSkipMembers(st, rio) ==
    IF st = "create" /\ GetOk(desiredOwners) THEN "groupResourceCreate:addOwners"
    ELSE IF st \in {"create", "addOwners", "addMembers"} /\ rio
         THEN "groupResourceCreate:removeOwners"
    ELSE "groupResourceCreate:read"

\* the step that follows `st` in groupResourceCreate: the owners block and the
\* members block run when d.GetOk is ok, the removal when removeInitialOwner is set
CreateStepAfter(st, rio) ==
    IF st = "create" /\ GetOk(desiredOwners) THEN "groupResourceCreate:addOwners"
    ELSE IF st \in {"create", "addOwners"} /\ GetOk(desiredMembers)
         THEN "groupResourceCreate:addMembers"
    ELSE IF st \in {"create", "addOwners", "addMembers"} /\ rio
         THEN "groupResourceCreate:removeOwners"
    ELSE "groupResourceCreate:read"

\* variant of CreateDuplicateCheck: a group found does not end the create
CreateDuplicateCheckNever(result) == ""

\* the apply-time duplicate-name check of groupResourceCreate: any group found
\* ends the create, the first of the result being the one reported
CreateDuplicateCheck(result) ==
    IF result = <<>> THEN ""
    ELSE IF result[1] = Nil THEN "nil object ID"
    ELSE "duplicate of " \o Deref(result[1])

\* entry: the duplicate-name check when the guard is on, then uuid.GenerateUUID
groupResourceCreate_Guard ==
    /\ pc = "groupResourceCreate"
    /\ IF preventDuplicateNames
       THEN /\ calls' = Append(calls, Call("List", "groupFindByName", <<>>))
            /\ \E outcome \in {"ok", "lookupError", "uuidError"} :
                 IF outcome = "lookupError"
                 THEN /\ pc' = "done"
                      /\ err' = "could not check for existing groups"
                 ELSE LET e == CreateDuplicateCheck(groupFindByName)
                      IN  IF e # ""
                          THEN /\ pc' = "done"
                               /\ err' = e
                          ELSE IF outcome = "uuidError"
                               THEN /\ pc' = "done"
                                    /\ err' = "failed to generate mailNickname"
                               ELSE /\ pc' = "groupResourceCreate:create"
                                    /\ err' = err
       ELSE /\ UNCHANGED calls
            /\ \E outcome \in {"ok", "uuidError"} :
                 IF outcome = "uuidError"
                 THEN /\ pc' = "done"
                      /\ err' = "failed to generate mailNickname"
                 ELSE /\ pc' = "groupResourceCreate:create"
                      /\ err' = err
    /\ UNCHANGED <<handler, prev, application, newRoles, newScopes, app, appRoles, scopes>>
    /\ UNCHANGED <<owners, members, desiredOwners, desiredMembers, existingOwners, existingMembers, group,
                   removeInitialOwner, resourceId, preventDuplicateNames, directory, locks>>
    /\ UNCHANGED extVars

\* variant of groupResourceCreate_Create: d.SetId runs before the outcome of
\* client.Create is looked at
groupResourceCreate_CreateSetsIdFirst ==
    /\ pc = "groupResourceCreate:create"
    /\ calls' = Append(calls, Call("Create", "groupResourceCreate", <<callerId>>))
    /\ removeInitialOwner' = TRUE
    /\ resourceId' = NewGroupId
    /\ \E outcome \in {"ok", "error", "nilID"} :
         IF outcome = "error"
         THEN /\ pc' = "done"
              /\ err' = "creating group"
              /\ UNCHANGED <<owners, members, directory, group>>
         ELSE /\ owners' = {callerId}
              /\ members' = {}
              /\ directory' = Append(directory, Ptr(NewGroupId))
              /\ IF outcome = "nilID"
                 THEN /\ pc' = "done"
                      /\ err' = "nil object ID"
                      /\ UNCHANGED group
                 ELSE /\ group' = [ID |-> Ptr(NewGroupId), Owners |-> <<>>, Members |-> <<>>]
                      /\ pc' = CreateStepAfter("create", TRUE)
                      /\ UNCHANGED err
    /\ UNCHANGED <<handler, prev, application, newRoles, newScopes, app, appRoles, scopes>>
    /\ UNCHANGED <<desiredOwners, desiredMembers, existingOwners, existingMembers, preventDuplicateNames, locks>>
    /\ UNCHANGED extVars

\* properties.AppendOwner(callerId); removeInitialOwner := true;
\* client.Create(ctx, properties); d.SetId(*group.ID)
groupResourceCreate_Create ==
    /\ pc = "groupResourceCreate:create"
    /\ calls' = Append(calls, Call("Create", "groupResourceCreate", <<callerId>>))
    /\ removeInitialOwner' = TRUE
    /\ \E outcome \in {"ok", "error", "nilID"} :
         IF outcome = "error"
         THEN /\ pc' = "done"
              /\ err' = "creating group"
              /\ UNCHANGED <<owners, members, directory, group, resourceId>>
         ELSE /\ owners' = {callerId}
              /\ members' = {}
              /\ directory' = Append(directory, Ptr(NewGroupId))
              /\ IF outcome = "nilID"
                 THEN /\ pc' = "done"
                      /\ err' = "nil object ID"
                      /\ UNCHANGED <<group, resourceId>>
                 ELSE /\ group' = [ID |-> Ptr(NewGroupId), Owners |-> <<>>, Members |-> <<>>]
                      /\ resourceId' = NewGroupId
                      /\ pc' = CreateStepAfter("create", TRUE)
                      /\ UNCHANGED err
    /\ UNCHANGED <<handler, prev, application, newRoles, newScopes, app, appRoles, scopes>>
    /\ UNCHANGED <<desiredOwners, desiredMembers, existingOwners, existingMembers, preventDuplicateNames, locks>>
    /\ UNCHANGED extVars

\* group.AppendOwner for each configured owner, then client.AddOwners(ctx, group)
groupResourceCreate_AddOwners ==
    /\ pc = "groupResourceCreate:addOwners"
    /\ LET appended == group.Owners \o desiredOwners
       IN  /\ group' = [group EXCEPT !.Owners = appended]
           /\ removeInitialOwner' = (removeInitialOwner /\ RemoveInitialOwnerFor(desiredOwners))
           /\ calls' = Append(calls, Call("AddOwners", "groupResourceCreate", appended))
           /\ \E ok \in BOOLEAN :
                IF ok
                THEN /\ owners' = owners \cup Range(appended)
                     /\ pc' = CreateStepAfter("addOwners", removeInitialOwner')
                     /\ UNCHANGED err
                ELSE /\ pc' = "done"
                     /\ err' = "could not add owners"
                     /\ UNCHANGED owners
    /\ UNCHANGED <<handler, prev, application, newRoles, newScopes, app, appRoles, scopes>>
    /\ UNCHANGED <<members, desiredOwners, desiredMembers, existingOwners, existingMembers, resourceId,
                   preventDuplicateNames, directory, locks>>
    /\ UNCHANGED extVars

\* variant of groupResourceCreate_AddMembers: a failed AddMembers does not end
\* the create
groupResourceCreate_AddMembersGoesOn ==
    /\ pc = "groupResourceCreate:addMembers"
    /\ LET appended == group.Members \o desiredMembers
       IN  /\ group' = [group EXCEPT !.Members = appended]
           /\ calls' = Append(calls, Call("AddMembers", "groupResourceCreate", appended))
           /\ pc' = CreateStepAfter("addMembers", removeInitialOwner)
           /\ \E ok \in BOOLEAN :
                IF ok
                THEN /\ members' = members \cup Range(appended)
                     /\ UNCHANGED err
                ELSE /\ err' = "could not add members"
                     /\ UNCHANGED members
    /\ UNCHANGED <<handler, prev, application, newRoles, newScopes, app, appRoles, scopes>>
    /\ UNCHANGED <<owners, desiredOwners, desiredMembers, existingOwners, existingMembers, removeInitialOwner,
                   resourceId, preventDuplicateNames, directory, locks>>
    /\ UNCHANGED extVars

\* group.AppendMember for each configured member, then client.AddMembers(ctx, group)
groupResourceCreate_AddMembers ==
    /\ pc = "groupResourceCreate:addMembers"
    /\ LET appended == group.Members \o desiredMembers
       IN  /\ group' = [group EXCEPT !.Members = appended]
           /\ calls' = Append(calls, Call("AddMembers", "groupResourceCreate", appended))
           /\ \E ok \in BOOLEAN :
                IF ok
                THEN /\ members' = members \cup Range(appended)
                     /\ pc' = CreateStepAfter("addMembers", removeInitialOwner)
                     /\ UNCHANGED err
                ELSE /\ pc' = "done"
                     /\ err' = "could not add members"
                     /\ UNCHANGED members
    /\ UNCHANGED <<handler, prev, application, newRoles, newScopes, app, appRoles, scopes>>
    /\ UNCHANGED <<owners, desiredOwners, desiredMembers, existingOwners, existingMembers, removeInitialOwner,
                   resourceId, preventDuplicateNames, directory, locks>>
    /\ UNCHANGED extVars

\* ownersToRemove := []string{callerId}; client.RemoveOwners(ctx, *group.ID, &ownersToRemove)
groupResourceCreate_RemoveOwners ==
    /\ pc = "groupResourceCreate:removeOwners"
    /\ LET ownersToRemove == <<callerId>>
       IN  /\ calls' = Append(calls, Call("RemoveOwners", "groupResourceCreate", ownersToRemove))
           /\ \E ok \in BOOLEAN :
                IF ok
                THEN /\ owners' = owners \ Range(ownersToRemove)
                     /\ pc' = CreateStepAfter("removeOwners", removeInitialOwner)
                     /\ UNCHANGED err
                ELSE /\ pc' = "done"
                     /\ err' = "could not remove temporary owner"
                     /\ UNCHANGED owners
    /\ UNCHANGED <<handler, prev, application, newRoles, newScopes, app, appRoles, scopes>>
    /\ UNCHANGED <<members, desiredOwners, desiredMembers, existingOwners, existingMembers, group, removeInitialOwner,
                   resourceId, preventDuplicateNames, directory, locks>>
    /\ UNCHANGED extVars

\* return groupResourceRead(ctx, d, meta)
groupResourceCreate_Read ==
    /\ pc = "groupResourceCreate:read"
    /\ \E outcome \in ReadOutcomes : groupResourceRead(outcome)
    /\ UNCHANGED <<handler, prev, application, newRoles, newScopes, app, appRoles, scopes>>
    /\ UNCHANGED <<owners, members, desiredOwners, desiredMembers, existingOwners, existingMembers, group,
                   removeInitialOwner, preventDuplicateNames, directory, locks>>
    /\ UNCHANGED extVars

-----------------------------------------------------------------------------
(* Specifications *)

AppIdle ==
    /\ newRoles = Nil
    /\ newScopes = Nil
    /\ app = Nil
    /\ appRoles = Nil
    /\ scopes = Nil

\* the members (owners) of the group and of the configuration in the runs that
\* range over every owners (members) case
FewMembers ==
    {<<{}, <<>>>>, <<{"u1"}, SetList({"u2"})>>, <<{"u1", "u2"}, SetList({"u2", "u4"})>>}
FewOwners ==
    {<<{"caller"}, <<>>>>, <<{"caller"}, SetList({"o1"})>>,
     <<{"caller", "o1"}, SetList({"o1", "o2"})>>}

\* Relation reconciliation: ApplicationSetOwners on an application, or
\* groupResourceUpdate on the group "g0"
InitReconcile ==
    /\ ExtIdle
    /\ handler \in {"ApplicationSetOwners", "groupResourceUpdate"}
    /\ pc = handler
    /\ err = ""
    /\ calls = <<>>
    /\ prev = <<>>
    /\ AppIdle
    /\ existingOwners = <<>>
    /\ existingMembers = <<>>
    /\ group = [ID |-> Nil, Owners |-> <<>>, Members |-> <<>>]
    /\ removeInitialOwner = FALSE
    /\ locks = {}
    /\ IF handler = "ApplicationSetOwners"
       THEN /\ application \in {[ID |-> id, AppRoles |-> Nil, Scopes |-> Nil, Owners |-> <<>>]
                                  : id \in {Nil, Ptr("app1")}}
            /\ owners \in SUBSET OwnerIds
            /\ desiredOwners \in NoDupSeqs(OwnerIds)
            /\ members = {}
            /\ desiredMembers = <<>>
            /\ resourceId = ""
            /\ preventDuplicateNames = FALSE
            /\ directory = <<>>
       ELSE /\ application = [ID |-> Nil, AppRoles |-> Nil, Scopes |-> Nil, Owners |-> <<>>]
            /\ \/ /\ owners \in SUBSET OwnerIds
                  /\ desiredOwners \in {SetList(S) : S \in SUBSET OwnerIds}
                  /\ \E few \in FewMembers : members = few[1] /\ desiredMembers = few[2]
               \/ /\ \E few \in FewOwners : owners = few[1] /\ desiredOwners = few[2]
                  /\ members \in SUBSET ExistingMemberIds
                  /\ desiredMembers \in {SetList(S) : S \in SUBSET ConfigMemberIds}
            /\ resourceId = "g0"
            /\ preventDuplicateNames \in BOOLEAN
            /\ directory \in (IF preventDuplicateNames
                              THEN {<<>>, <<Ptr("g0")>>, <<Ptr("g0"), Ptr("g1")>>, <<Nil>>}
                              ELSE {<<Ptr("g0"), Ptr("g1")>>})

NextReconcile ==
    \/ ApplicationSetOwners_List
    \/ ApplicationSetOwners_Remove
    \/ ApplicationSetOwners_Add
    \/ groupResourceUpdate_Guard
    \/ groupResourceUpdate_Update
    \/ groupResourceUpdate_Members
    \/ groupResourceUpdate_RemoveMembers
    \/ groupResourceUpdate_AddMembers
    \/ groupResourceUpdate_Owners
    \/ groupResourceUpdate_AddOwners
    \/ groupResourceUpdate_RemoveOwners
    \/ groupResourceUpdate_Read
    \/ Again

SpecReconcile == InitReconcile /\ [][NextReconcile]_vars

\* groupResourceCreate of a group that does not exist yet
InitCreate ==
    /\ ExtIdle
    /\ handler = "groupResourceCreate"
    /\ pc = handler
    /\ err = ""
    /\ calls = <<>>
    /\ prev = <<>>
    /\ AppIdle
    /\ application = [ID |-> Nil, AppRoles |-> Nil, Scopes |-> Nil, Owners |-> <<>>]
    /\ existingOwners = <<>>
    /\ existingMembers = <<>>
    /\ group = [ID |-> Nil, Owners |-> <<>>, Members |-> <<>>]
    /\ removeInitialOwner = FALSE
    /\ locks = {}
    /\ owners = {}
    /\ members = {}
    /\ resourceId = ""
    /\ desiredOwners \in {SetList(S) : S \in SUBSET ConfigOwnerIds}
    /\ desiredMembers \in {SetList(S) : S \in SUBSET ConfigMemberIds}
    /\ preventDuplicateNames \in BOOLEAN
    /\ directory \in (IF preventDuplicateNames
                      THEN {<<>>, <<Ptr("g1")>>, <<Ptr("g1"), Ptr("g2")>>, <<Nil>>}
                      ELSE {<<>>, <<Ptr("g1")>>})

NextCreate ==
    \/ groupResourceCreate_Guard
    \/ groupResourceCreate_Create
    \/ groupResourceCreate_AddOwners
    \/ groupResourceCreate_AddMembers
    \/ groupResourceCreate_RemoveOwners
    \/ groupResourceCreate_Read

SpecCreate == InitCreate /\ [][NextCreate]_vars

-----------------------------------------------------------------------------
(* Properties of relation reconciliation (SpecReconcile) *)

Issued(op, site) == \E i \in DOMAIN calls : calls[i].op = op /\ calls[i].site = site

\* every call `op` of the current run is preceded by a call `before`
Precedes(before, op) ==
    \A i \in DOMAIN calls :
        calls[i].op = op => \E j \in 1..(i - 1) : calls[j].op = before

\* the current run of groupResourceUpdate holds the result of ListOwners
UpdateListedOwners ==
    /\ handler = "groupResourceUpdate"
    /\ Issued("ListOwners", "groupResourceUpdate")
    /\ err # "could not retrieve owners"

\* the current run of groupResourceUpdate holds the result of ListMembers
UpdateListedMembers ==
    /\ handler = "groupResourceUpdate"
    /\ Issued("ListMembers", "groupResourceUpdate")
    /\ err # "could not retrieve members"

\* the current run of ApplicationSetOwners holds the result of ListOwners
AppListedOwners ==
    /\ handler = "ApplicationSetOwners"
    /\ Issued("ListOwners", "ApplicationSetOwners")
    /\ err # "retrieving owners"

\* C6: in groupResourceUpdate, with existing owners exactly the creating
\* principal and a non-empty desired owners set without that principal,
\* AddOwners for the desired owners is issued before RemoveOwners for the
\* principal, and the remote owner set is never empty during the update.
C6_UpdateOwnersNoLockOut ==
    (/\ UpdateListedOwners
     /\ existingOwners = <<callerId>>
     /\ desiredOwners # <<>>
     /\ \A i \in DOMAIN desiredOwners : ~EqualFold(callerId, desiredOwners[i]))
        => /\ owners # {}
           /\ \A i \in DOMAIN calls :
                 (calls[i].op = "RemoveOwners")
                    => /\ calls[i].arg = <<callerId>>
                       /\ \E j \in 1..(i - 1) :
                             /\ calls[j].op = "AddOwners"
                             /\ calls[j].arg = desiredOwners
           /\ (pc = "groupResourceUpdate:read")
                 => (Issued("AddOwners", "groupResourceUpdate")
                     /\ Issued("RemoveOwners", "groupResourceUpdate")
                     /\ owners = Range(desiredOwners))

\* C6 witness: the update has added the desired owners and then removed the
\* creating principal, who was the only owner.
C6_Witness ==
    /\ UpdateListedOwners
    /\ existingOwners = <<callerId>>
    /\ desiredOwners # <<>>
    /\ callerId \notin Range(desiredOwners)
    /\ pc = "groupResourceUpdate:read"
    /\ Issued("RemoveOwners", "groupResourceUpdate")
    /\ callerId \notin owners

\* C7: in ApplicationSetOwners, when owners are to be added and to be removed
\* and the removal takes the sole owner or the acting principal, AddOwners is
\* applied before RemoveOwners and the application never has zero owners.
C7_AppOwnersAddBeforeRemove ==
    (/\ AppListedOwners
     /\ Difference(desiredOwners, existingOwners) # <<>>
     /\ Difference(existingOwners, desiredOwners) # <<>>
     /\ \/ callerId \in Range(Difference(existingOwners, desiredOwners))
        \/ (Len(existingOwners) = 1 /\ existingOwners[1] \notin Range(desiredOwners)))
        => /\ Precedes("AddOwners", "RemoveOwners")
           /\ owners # {}

\* C9: a reconciliation of a relation to D that follows a successful
\* reconciliation of that relation to the same D issues no add call and no
\* remove call (ApplicationSetOwners; groupResourceUpdate members and owners).
C9_ReconcileIdempotent ==
    (prev # <<>>) =>
        /\ (handler = "ApplicationSetOwners" /\ prev[1].ok)
              => (~Issued("AddOwners", handler) /\ ~Issued("RemoveOwners", handler))
        /\ (/\ handler = "groupResourceUpdate"
            /\ prev[1].ok
            /\ <<"ListMembers", handler>> \in prev[1].ops)
              => (~Issued("AddMembers", handler) /\ ~Issued("RemoveMembers", handler))
        /\ (/\ handler = "groupResourceUpdate"
            /\ prev[1].ok
            /\ <<"ListOwners", handler>> \in prev[1].ops)
              => (~Issued("AddOwners", handler) /\ ~Issued("RemoveOwners", handler))

\* C9 witness: an update that removed and added members and added and removed
\* owners is followed by an update that listed both relations again and has
\* reached its read-back.
C9_Witness ==
    /\ handler = "groupResourceUpdate"
    /\ prev # <<>>
    /\ prev[1].ok
    /\ {<<"RemoveMembers", handler>>, <<"AddMembers", handler>>,
        <<"AddOwners", handler>>, <<"RemoveOwners", handler>>} \subseteq prev[1].ops
    /\ UpdateListedMembers
    /\ UpdateListedOwners
    /\ pc = "groupResourceUpdate:read"

\* C10: in groupResourceUpdate the RemoveMembers call carries exactly the
\* fetched members that are not desired and the AddMembers call exactly the
\* desired members that were not fetched, each once.
C10_MemberCallsCarryDifferences ==
    \A i \in DOMAIN calls :
        /\ (calls[i].op = "RemoveMembers")
              => /\ UpdateListedMembers
                 /\ Range(calls[i].arg) = Range(existingMembers) \ Range(desiredMembers)
                 /\ Len(calls[i].arg) = Cardinality(Range(calls[i].arg))
        /\ (calls[i].op = "AddMembers")
              => /\ UpdateListedMembers
                 /\ Range(calls[i].arg) = Range(desiredMembers) \ Range(existingMembers)
                 /\ Len(calls[i].arg) = Cardinality(Range(calls[i].arg))

\* C10 witness: existing members u1, u2, u3 and desired members u2, u4: the
\* update has removed u1 and u3 and added u4.
C10_Witness ==
    /\ UpdateListedMembers
    /\ Range(existingMembers) = {"u1", "u2", "u3"}
    /\ Range(desiredMembers) = {"u2", "u4"}
    /\ \E i \in DOMAIN calls :
          calls[i].op = "RemoveMembers" /\ Range(calls[i].arg) = {"u1", "u3"}
    /\ \E i \in DOMAIN calls :
          calls[i].op = "AddMembers" /\ calls[i].arg = <<"u4">>
    /\ members = {"u2", "u4"}

-----------------------------------------------------------------------------
(* Properties of groupResourceCreate (SpecCreate) *)

Mutating == {"Create", "Update", "AddOwners", "RemoveOwners", "AddMembers", "RemoveMembers"}

\* the configured owners name the acting principal, in any letter case
OwnersNameCaller == \E i \in DOMAIN desiredOwners : EqualFold(callerId, desiredOwners[i])

\* the temporary owner has been removed from the remote group
InitialOwnerRemoved ==
    Issued("RemoveOwners", "groupResourceCreate") /\ err # "could not remove temporary owner"

\* the create flow has passed the point of the temporary owner's removal
PastRemoval ==
    \/ pc = "groupResourceCreate:read"
    \/ Issued("Get", "groupResourceRead")
    \/ Issued("RemoveOwners", "groupResourceCreate")

\* C8: the Create call carries the acting principal as owner, who stays an
\* owner until the temporary owner's removal; RemoveOwners of the acting
\* principal is issued exactly when the configured owners do not name that
\* principal in any letter case, and it is the last mutating call of the flow,
\* after AddOwners and AddMembers.
C8_CreateTemporaryOwner ==
    /\ \A i \in DOMAIN calls :
          calls[i].op = "Create" => callerId \in Range(calls[i].arg)
    /\ (group.ID # Nil /\ ~InitialOwnerRemoved) => callerId \in owners
    /\ PastRemoval => (Issued("RemoveOwners", "groupResourceCreate") <=> ~OwnersNameCaller)
    /\ \A i \in DOMAIN calls :
          (calls[i].op = "RemoveOwners")
             => /\ calls[i].arg = <<callerId>>
                /\ \A j \in (i + 1)..Len(calls) : calls[j].op \notin Mutating
                /\ GetOk(desiredOwners) => \E j \in 1..(i - 1) : calls[j].op = "AddOwners"
                /\ GetOk(desiredMembers) => \E j \in 1..(i - 1) : calls[j].op = "AddMembers"

\* C8 witness: a create with configured owners that do not name the acting
\* principal and with configured members has added both, removed the
\* temporary owner and read the group back.
C8_Witness ==
    /\ pc = "done" /\ err = ""
    /\ GetOk(desiredOwners) /\ ~OwnersNameCaller
    /\ GetOk(desiredMembers)
    /\ Issued("AddOwners", "groupResourceCreate")
    /\ Issued("AddMembers", "groupResourceCreate")
    /\ InitialOwnerRemoved
    /\ Issued("Get", "groupResourceRead")
    /\ owners = Range(desiredOwners)

\* the calls of the current run with operation op issued at site
CallsAt(op, site) == SelectSeq(calls, LAMBDA c : c.op = op /\ c.site = site)

\* the create flow has passed its members block
PastMembers ==
    \/ pc = "groupResourceCreate:removeOwners"
    \/ PastRemoval

\* C11: groupResourceCreate issues no RemoveMembers call and at most one
\* AddMembers call, which carries exactly the configured members; a flow that
\* passes the members block has issued exactly one AddMembers call when the
\* configured members are non-empty, and no member call when they are empty.
C11_CreateAddsMembersOnce ==
    /\ ~ \E i \in DOMAIN calls : calls[i].op = "RemoveMembers"
    /\ Len(CallsAt("AddMembers", "groupResourceCreate")) <= 1
    /\ \A i \in DOMAIN calls :
          calls[i].op = "AddMembers" => (calls[i].arg = desiredMembers /\ desiredMembers # <<>>)
    /\ PastMembers
          => Len(CallsAt("AddMembers", "groupResourceCreate"))
                = (IF desiredMembers # <<>> THEN 1 ELSE 0)

\* C11 witness: a create with two configured members has added exactly them
\* and has read the group back.
C11_Witness ==
    /\ pc = "done" /\ err = ""
    /\ Len(desiredMembers) = 2
    /\ Len(CallsAt("AddMembers", "groupResourceCreate")) = 1
    /\ CallsAt("AddMembers", "groupResourceCreate")[1].arg = desiredMembers
    /\ members = Range(desiredMembers)
    /\ Issued("Get", "groupResourceRead")

-----------------------------------------------------------------------------
(* Further properties of relation reconciliation (SpecReconcile) *)

RelationOps == {"AddMembers", "RemoveMembers", "AddOwners", "RemoveOwners"}

\* C12: in groupResourceUpdate (members, owners) and ApplicationSetOwners an
\* add or remove call is issued only with a non-empty list: no remove call when
\* the set to remove is empty, no add call when the set to add is empty.
C12_NoCallForEmptySet ==
    \A i \in DOMAIN calls :
        /\ (calls[i].op \in RelationOps) => calls[i].arg # <<>>
        /\ (calls[i].op = "RemoveMembers")
              => Difference(existingMembers, desiredMembers) # <<>>
        /\ (calls[i].op = "AddMembers")
              => Difference(desiredMembers, existingMembers) # <<>>
        /\ (calls[i].op = "RemoveOwners")
              => Difference(existingOwners, desiredOwners) # <<>>
        /\ (calls[i].op = "AddOwners")
              => Difference(desiredOwners, existingOwners) # <<>>

\* C12 witness: an update whose members have nothing to remove and something
\* to add, and whose owners have something to remove and nothing to add, has
\* issued AddMembers and RemoveOwners only.
C12_Witness ==
    /\ UpdateListedMembers
    /\ UpdateListedOwners
    /\ pc = "groupResourceUpdate:read"
    /\ Difference(existingMembers, desiredMembers) = <<>>
    /\ Difference(desiredOwners, existingOwners) = <<>>
    /\ Issued("AddMembers", "groupResourceUpdate")
    /\ Issued("RemoveOwners", "groupResourceUpdate")
    /\ ~Issued("RemoveMembers", "groupResourceUpdate")
    /\ ~Issued("AddOwners", "groupResourceUpdate")

-----------------------------------------------------------------------------
(* Properties of the duplicate-name guard at create (SpecCreate) *)

\* the groups that carried the display name before this create
PreExisting == SelectSeq(directory, LAMBDA g : g # Ptr(NewGroupId))

\* C13: with prevent_duplicate_names on and groups already carrying the
\* display name, groupResourceCreate issues no call but the name lookup, leaves
\* the resource id unset, and ends with a duplicate-name error naming the id of
\* one of those groups (or with the error of a failed lookup).
C13_CreateRejectsDuplicateName ==
    (/\ preventDuplicateNames
     /\ PreExisting # <<>>
     /\ \A i \in DOMAIN PreExisting : PreExisting[i] # Nil)
        => /\ \A i \in DOMAIN calls : calls[i].op = "List"
           /\ resourceId = ""
           /\ group.ID = Nil
           /\ directory = PreExisting
           /\ pc \in {"groupResourceCreate", "done"}
           /\ (pc = "done")
                 => \/ err = "could not check for existing groups"
                    \/ \E i \in DOMAIN PreExisting :
                          err = "duplicate of " \o Deref(PreExisting[i])

\* C13 witness: two groups carry the name, the create has ended with the
\* duplicate-name error naming one of them, having issued the lookup only.
C13_Witness ==
    /\ preventDuplicateNames
    /\ directory = <<Ptr("g1"), Ptr("g2")>>
    /\ pc = "done"
    /\ err = "duplicate of g1"
    /\ Len(calls) = 1 /\ calls[1].op = "List"
    /\ resourceId = ""

-----------------------------------------------------------------------------
(* groupResourceCustomizeDiff *)

GroupIds == {"g0", "g1", "g2"}

\* the plan-time duplicate-name check: the groups of the result are visited in
\* order; one without id ends the diff with an API error, one for which
\* diff.Id() == "" || diff.Id() == *existingGroup.ID with the duplicate error
DiffDuplicateCheck(result, id) ==
    LET hits == {i \in DOMAIN result :
                    result[i] = Nil \/ id = "" \/ id = Deref(result[i])}
    IN  IF hits = {} THEN ""
        ELSE LET k == CHOOSE i \in hits : \A j \in hits : i <= j
             IN  IF result[k] = Nil THEN "nil object ID"
                 ELSE "duplicate of " \o Deref(result[k])

\* variant of DiffLooksUp: the lookup does not depend on prevent_duplicate_names
DiffLooksUpAlways ==
    diff.oldDisplayName = "" \/ diff.oldDisplayName # diff.newDisplayName

\* prevent_duplicate_names && (oldDisplayName == "" || oldDisplayName != newDisplayName)
DiffLooksUp ==
    /\ preventDuplicateNames
    /\ (diff.oldDisplayName = "" \/ diff.oldDisplayName # diff.newDisplayName)

\* entry: the checks of mail_enabled against types, then the decision to look
\* the display name up
groupResourceCustomizeDiff_Validate ==
    /\ pc = "groupResourceCustomizeDiff"
    /\ IF diff.mailEnabled /\ ~diff.unified
       THEN pc' = "done" /\ err' = "types must contain Unified"
       ELSE IF ~diff.mailEnabled /\ diff.unified
       THEN pc' = "done" /\ err' = "mail_enabled must be true"
       ELSE IF DiffLooksUp
       THEN pc' = "groupResourceCustomizeDiff:lookup" /\ err' = err
       ELSE pc' = "done" /\ err' = err
    /\ UNCHANGED <<handler, calls, prev>>
    /\ UNCHANGED <<appVars, relVars, extVars>>

\* groupFindByName(ctx, client, newDisplayName) and the loop over its result
groupResourceCustomizeDiff_Lookup ==
    /\ pc = "groupResourceCustomizeDiff:lookup"
    /\ calls' = Append(calls, Call("List", "groupFindByName", <<>>))
    /\ pc' = "done"
    /\ \E ok \in BOOLEAN :
         err' = IF ok THEN DiffDuplicateCheck(groupFindByName, resourceId)
                      ELSE "could not check for existing groups"
    /\ UNCHANGED <<handler, prev>>
    /\ UNCHANGED <<appVars, relVars, extVars>>

\* A plan of a new group (no id, no old display name) or of a change of the
\* group "g0", against the groups the lookup of the new name returns
InitDiff ==
    /\ handler = "groupResourceCustomizeDiff"
    /\ pc = handler
    /\ err = ""
    /\ calls = <<>>
    /\ prev = <<>>
    /\ AppIdle
    /\ application = [ID |-> Nil, AppRoles |-> Nil, Scopes |-> Nil, Owners |-> <<>>]
    /\ owners = {}
    /\ members = {}
    /\ desiredOwners = <<>>
    /\ desiredMembers = <<>>
    /\ existingOwners = <<>>
    /\ existingMembers = <<>>
    /\ group = [ID |-> Nil, Owners |-> <<>>, Members |-> <<>>]
    /\ removeInitialOwner = FALSE
    /\ locks = {}
    /\ procs = <<>>
    /\ input = <<>>
    /\ output = <<>>
    /\ groups = <<>>
    /\ resourceId \in {"", "g0"}
    /\ diff \in [oldDisplayName : IF resourceId = "" THEN {""} ELSE {"a", "b"},
                 newDisplayName : {"a", "b"},
                 mailEnabled : BOOLEAN,
                 unified : BOOLEAN]
    /\ preventDuplicateNames \in BOOLEAN
    /\ directory \in {<<>>, <<Ptr("g0")>>, <<Ptr("g1")>>, <<Ptr("g0"), Ptr("g1")>>,
                      <<Ptr("g1"), Ptr("g0")>>, <<Ptr("g1"), Ptr("g2")>>, <<Nil>>}

NextDiff ==
    \/ groupResourceCustomizeDiff_Validate
    \/ groupResourceCustomizeDiff_Lookup

SpecDiff == InitDiff /\ [][NextDiff]_vars

\* the diff ended with the duplicate-name error
DiffRejectedAsDuplicate == pc = "done" /\ err \in {"duplicate of " \o g : g \in GroupIds}

\* the name lookup of the diff returned, every group of its result carrying an id
DiffLookedUp ==
    /\ handler = "groupResourceCustomizeDiff"
    /\ pc = "done"
    /\ Issued("List", "groupFindByName")
    /\ err # "could not check for existing groups"
    /\ \A i \in DOMAIN directory : directory[i] # Nil

\* C14: a plan-time diff that looked the new name up is rejected with the
\* duplicate-name error exactly when the result holds a group whose id differs
\* from the resource's own id (any group, for a resource without id).
C14_DiffRejectsOtherGroupsOnly ==
    DiffLookedUp =>
        (DiffRejectedAsDuplicate
            <=> \E i \in DOMAIN directory : Deref(directory[i]) # resourceId)

-----------------------------------------------------------------------------
(* Concurrent applies: two invocations of one handler, each with its own     *)
(* position and locals in procs, against the shared remote directory.  The   *)
(* remote calls of the two interleave freely.                                *)

Procs == {"p1", "p2"}

\* the variables of the one-invocation model that concurrent applies leave alone
soloVars == <<handler, pc, err, calls, prev, appVars, owners, members, desiredOwners,
              desiredMembers, existingOwners, existingMembers, group, removeInitialOwner,
              resourceId, preventDuplicateNames, locks, diff, input, output>>

\* soloVars without the lock names
soloVarsButLocks == <<handler, pc, err, calls, prev, appVars, owners, members, desiredOwners,
                      desiredMembers, existingOwners, existingMembers, group,
                      removeInitialOwner, resourceId, preventDuplicateNames, diff, input, output>>

\* the id the remote assigns to the group created by invocation p
NewGroupIdOf(p) == IF p = "p1" THEN "g1" ELSE "g2"

NoGroup == [exists |-> FALSE, owners |-> {}, members |-> {}]

\* invocation p moves to position to with error e and the locals given in upd
ProcStep(p, to, e, c) ==
    procs' = [procs EXCEPT ![p].pc = to, ![p].err = e,
                           ![p].calls = procs[p].calls \o c]

RemoteOwners(id, set) == groups' = [groups EXCEPT ![id].owners = set]
RemoteMembers(id, set) == groups' = [groups EXCEPT ![id].members = set]

\* the step that follows `st` in the create of invocation p
CreateProcStepAfter(p, st, rio) == CreateStepAfter(st, rio)

\* groupResourceCreate, entry: the duplicate-name check when the guard is on,
\* then uuid.GenerateUUID
CreateProc_Guard(p) ==
    /\ procs[p].pc = "groupResourceCreate"
    /\ IF preventDuplicateNames
       THEN \E outcome \in {"ok", "lookupError", "uuidError"} :
              LET c == <<Call("List", "groupFindByName", directory)>>
                  e == CreateDuplicateCheck(groupFindByName)
              IN  IF outcome = "lookupError"
                  THEN ProcStep(p, "done", "could not check for existing groups", c)
                  ELSE IF e # "" THEN ProcStep(p, "done", e, c)
                  ELSE IF outcome = "uuidError"
                  THEN ProcStep(p, "done", "failed to generate mailNickname", c)
                  ELSE ProcStep(p, "groupResourceCreate:create", "", c)
       ELSE \E outcome \in {"ok", "uuidError"} :
              IF outcome = "uuidError"
              THEN ProcStep(p, "done", "failed to generate mailNickname", <<>>)
              ELSE ProcStep(p, "groupResourceCreate:create", "", <<>>)
    /\ UNCHANGED <<directory, groups>>
    /\ UNCHANGED soloVars

\* client.Create(ctx, properties) with the caller as owner; d.SetId(*group.ID)
CreateProc_Create(p) ==
    /\ procs[p].pc = "groupResourceCreate:create"
    /\ LET c == <<Call("Create", "groupResourceCreate", <<callerId>>)>>
           id == NewGroupIdOf(p)
       IN  \E outcome \in {"ok", "error", "nilID"} :
             IF outcome = "error"
             THEN /\ ProcStep(p, "done", "creating group", c)
                  /\ UNCHANGED <<directory, groups>>
             ELSE /\ directory' = Append(directory, Ptr(id))
                  /\ groups' = [groups EXCEPT ![id] =
                                   [exists |-> TRUE, owners |-> {callerId}, members |-> {}]]
                  /\ IF outcome = "nilID"
                     THEN ProcStep(p, "done", "nil object ID", c)
                     ELSE procs' = [procs EXCEPT
                                       ![p].pc = CreateProcStepAfter(p, "create", TRUE),
                                       ![p].id = id,
                                       ![p].removeInitialOwner = TRUE,
                                       ![p].calls = procs[p].calls \o c]
    /\ UNCHANGED soloVars

\* group.AppendOwner for each configured owner, then client.AddOwners(ctx, group)
CreateProc_AddOwners(p) ==
    /\ procs[p].pc = "groupResourceCreate:addOwners"
    /\ LET c == <<Call("AddOwners", "groupResourceCreate", desiredOwners)>>
           rio == procs[p].removeInitialOwner /\ RemoveInitialOwnerFor(desiredOwners)
       IN  \E ok \in BOOLEAN :
             IF ok
             THEN /\ RemoteOwners(procs[p].id, groups[procs[p].id].owners \cup Range(desiredOwners))
                  /\ procs' = [procs EXCEPT ![p].pc = CreateProcStepAfter(p, "addOwners", rio),
                                            ![p].removeInitialOwner = rio,
                                            ![p].calls = procs[p].calls \o c]
             ELSE /\ procs' = [procs EXCEPT ![p].pc = "done",
                                            ![p].err = "could not add owners",
                                            ![p].removeInitialOwner = rio,
                                            ![p].calls = procs[p].calls \o c]
                  /\ UNCHANGED groups
    /\ UNCHANGED directory
    /\ UNCHANGED soloVars

\* group.AppendMember for each configured member, then client.AddMembers(ctx, group)
CreateProc_AddMembers(p) ==
    /\ procs[p].pc = "groupResourceCreate:addMembers"
    /\ LET c == <<Call("AddMembers", "groupResourceCreate", desiredMembers)>>
       IN  \E ok \in BOOLEAN :
             IF ok
             THEN /\ RemoteMembers(procs[p].id, groups[procs[p].id].members \cup Range(desiredMembers))
                  /\ ProcStep(p, CreateProcStepAfter(p, "addMembers", procs[p].removeInitialOwner), "", c)
             ELSE /\ ProcStep(p, "done", "could not add members", c)
                  /\ UNCHANGED groups
    /\ UNCHANGED directory
    /\ UNCHANGED soloVars

\* client.RemoveOwners(ctx, *group.ID, &[]string{callerId})
CreateProc_RemoveOwners(p) ==
    /\ procs[p].pc = "groupResourceCreate:removeOwners"
    /\ LET c == <<Call("RemoveOwners", "groupResourceCreate", <<callerId>>)>>
       IN  \E ok \in BOOLEAN :
             IF ok
             THEN /\ RemoteOwners(procs[p].id, groups[procs[p].id].owners \ {callerId})
                  /\ ProcStep(p, "groupResourceCreate:read", "", c)
             ELSE /\ ProcStep(p, "done", "could not remove temporary owner", c)
                  /\ UNCHANGED groups
    /\ UNCHANGED directory
    /\ UNCHANGED soloVars

\* return groupResourceRead(ctx, d, meta)
CreateProc_Read(p) ==
    /\ procs[p].pc = "groupResourceCreate:read"
    /\ \E outcome \in ReadOutcomes :
         procs' = [procs EXCEPT ![p].pc = "done",
                                ![p].err = IF outcome \in {"ok", "notfound"}
                                           THEN "" ELSE "read: " \o outcome,
                                ![p].id = IF outcome = "notfound" THEN "" ELSE procs[p].id,
                                ![p].calls = procs[p].calls \o ReadCalls(outcome)]
    /\ UNCHANGED <<directory, groups>>
    /\ UNCHANGED soloVars

\* Two concurrent creates of a group with the same display name, owners and
\* members, with or without a group that carries the name already
InitCreateRace ==
    /\ handler = "groupResourceCreate"
    /\ pc = "concurrent"
    /\ err = ""
    /\ calls = <<>>
    /\ prev = <<>>
    /\ AppIdle
    /\ application = [ID |-> Nil, AppRoles |-> Nil, Scopes |-> Nil, Owners |-> <<>>]
    /\ owners = {}
    /\ members = {}
    /\ existingOwners = <<>>
    /\ existingMembers = <<>>
    /\ group = [ID |-> Nil, Owners |-> <<>>, Members |-> <<>>]
    /\ removeInitialOwner = FALSE
    /\ resourceId = ""
    /\ locks = {}
    /\ diff = <<>>
    /\ input = <<>>
    /\ output = <<>>
    /\ desiredOwners \in {<<>>, <<"o1">>}
    /\ desiredMembers \in {<<>>, <<"u2">>}
    /\ preventDuplicateNames \in BOOLEAN
    /\ directory \in {<<>>, <<Ptr("g0")>>}
    /\ groups = [g \in GroupIds |->
                    IF Ptr(g) \in Range(directory)
                    THEN [exists |-> TRUE, owners |-> {"o2"}, members |-> {}]
                    ELSE NoGroup]
    /\ procs = [p \in Procs |->
                   [pc |-> "groupResourceCreate", err |-> "", id |-> "",
                    removeInitialOwner |-> FALSE, calls |-> <<>>]]

NextCreateRace ==
    \/ \E p \in Procs : CreateProc_Guard(p)
    \/ \E p \in Procs : CreateProc_Create(p)
    \/ \E p \in Procs : CreateProc_AddOwners(p)
    \/ \E p \in Procs : CreateProc_AddMembers(p)
    \/ \E p \in Procs : CreateProc_RemoveOwners(p)
    \/ \E p \in Procs : CreateProc_Read(p)

SpecCreateRace == InitCreateRace /\ [][NextCreateRace]_vars

\* the groups created by the concurrent creates
CreatedBy == {p \in Procs : groups[NewGroupIdOf(p)].exists}

\* C15: with prevent_duplicate_names on and no group carrying the display
\* name beforehand, two concurrent creates leave at most one group of that name.
C15_AtMostOneGuardedCreate ==
    (preventDuplicateNames /\ ~groups["g0"].exists) => Cardinality(CreatedBy) <= 1

\* C15, the part that holds: a guarded create whose name lookup returned a
\* group issues no Create call.
C15_LateLookupRejected ==
    \A p \in Procs :
        \A i \in DOMAIN procs[p].calls :
            (procs[p].calls[i].op = "List" /\ procs[p].calls[i].arg # <<>>)
                => ~ \E j \in DOMAIN procs[p].calls : procs[p].calls[j].op = "Create"

-----------------------------------------------------------------------------
(* Concurrent groupResourceUpdate: two invocations, serialized per group id  *)
(* by tf.LockByName / tf.UnlockByName                                        *)

\* variant of UpdateLocks: no name is locked
UpdateLocksNone(groupId) == {}

\* tf.LockByName(groupResourceName, groupId): the names groupResourceUpdate locks
UpdateLocks(groupId) == {LockName(groupId)}

\* variant of UpdateUnlocks: no name is unlocked
UpdateUnlocksNone(groupId) == {}

\* defer tf.UnlockByName(groupResourceName, groupId): the names every return unlocks
UpdateUnlocks(groupId) == {LockName(groupId)}

\* tf.LockByName: waits until no other invocation holds the name, then holds it
LockByName(names) ==
    /\ names \cap locks = {}
    /\ locks' = locks \cup names

\* tf.UnlockByName
UnlockByName(names) == locks' = locks \ names

\* a return of invocation p with error e after the calls c: the deferred unlock runs
UpdateProcReturn(p, e, c) ==
    /\ ProcStep(p, "done", e, c)
    /\ UnlockByName(UpdateUnlocks(procs[p].id))

\* invocation p goes on to position to after the calls c
UpdateProcGoto(p, to, c) ==
    /\ ProcStep(p, to, "", c)
    /\ UNCHANGED locks

\* membersForRemoval and membersToAdd of invocation p for the listing ex
UpdateProcMembersWork(p, ex) ==
    [st \in Range(UpdateMembersOrder) |->
        IF st = "groupResourceUpdate:removeMembers"
        THEN Difference(ex, procs[p].desiredMembers)
        ELSE Difference(procs[p].desiredMembers, ex)]

\* ownersForRemoval and ownersToAdd of invocation p for the listing ex
UpdateProcOwnersWork(p, ex) ==
    [st \in Range(UpdateOwnersOrder) |->
        IF st = "groupResourceUpdate:removeOwners"
        THEN Difference(ex, procs[p].desiredOwners)
        ELSE Difference(procs[p].desiredOwners, ex)]

\* entry: tf.LockByName(groupResourceName, groupId)
UpdateProc_Lock(p) ==
    /\ procs[p].pc = "groupResourceUpdate"
    /\ LockByName(UpdateLocks(procs[p].id))
    /\ ProcStep(p, "groupResourceUpdate:guard", "", <<>>)
    /\ UNCHANGED <<directory, groups, soloVarsButLocks>>

\* the duplicate-name check when the guard is on
UpdateProc_Guard(p) ==
    /\ procs[p].pc = "groupResourceUpdate:guard"
    /\ IF preventDuplicateNames
       THEN \E ok \in BOOLEAN :
              LET c == <<Call("List", "groupFindByName", <<>>)>>
                  e == UpdateDuplicateCheck(groupFindByName, procs[p].id)
              IN  IF ~ok THEN UpdateProcReturn(p, "could not check for existing groups", c)
                  ELSE IF e # "" THEN UpdateProcReturn(p, e, c)
                  ELSE UpdateProcGoto(p, "groupResourceUpdate:update", c)
       ELSE UpdateProcGoto(p, "groupResourceUpdate:update", <<>>)
    /\ UNCHANGED <<directory, groups, soloVarsButLocks>>

\* client.Update(ctx, group)
UpdateProc_Update(p) ==
    /\ procs[p].pc = "groupResourceUpdate:update"
    /\ LET c == <<Call("Update", "groupResourceUpdate", <<>>)>>
       IN  \E ok \in BOOLEAN :
             IF ok THEN UpdateProcGoto(p, "groupResourceUpdate:members", c)
                   ELSE UpdateProcReturn(p, "updating group", c)
    /\ UNCHANGED <<directory, groups, soloVarsButLocks>>

\* if v, ok := d.GetOk("members"); ok && d.HasChange("members") { client.ListMembers ... }
UpdateProc_Members(p) ==
    /\ procs[p].pc = "groupResourceUpdate:members"
    /\ \E hasChange \in BOOLEAN :
         IF GetOk(procs[p].desiredMembers) /\ hasChange
         THEN LET c == <<Call("ListMembers", "groupResourceUpdate", <<>>)>>
              IN  \E ok \in BOOLEAN :
                    IF ok
                    THEN LET ex == SetList(groups[procs[p].id].members)
                             to == FirstStep(UpdateMembersOrder, UpdateProcMembersWork(p, ex),
                                             "groupResourceUpdate:owners")
                         IN  /\ procs' = [procs EXCEPT ![p].pc = to,
                                                       ![p].existingMembers = ex,
                                                       ![p].listedMembers = TRUE,
                                                       ![p].calls = procs[p].calls \o c]
                             /\ UNCHANGED locks
                    ELSE UpdateProcReturn(p, "could not retrieve members", c)
         ELSE UpdateProcGoto(p, "groupResourceUpdate:owners", <<>>)
    /\ UNCHANGED <<directory, groups, soloVarsButLocks>>

\* client.RemoveMembers(ctx, d.Id(), &membersForRemoval)
UpdateProc_RemoveMembers(p) ==
    /\ procs[p].pc = "groupResourceUpdate:removeMembers"
    /\ LET work == UpdateProcMembersWork(p, procs[p].existingMembers)
           membersForRemoval == work[procs[p].pc]
           c == <<Call("RemoveMembers", "groupResourceUpdate", membersForRemoval)>>
       IN  \E ok \in BOOLEAN :
             IF ok
             THEN /\ RemoteMembers(procs[p].id,
                                   groups[procs[p].id].members \ Range(membersForRemoval))
                  /\ UpdateProcGoto(p, FirstStep(StepsAfter(UpdateMembersOrder, procs[p].pc), work,
                                                 "groupResourceUpdate:owners"), c)
             ELSE /\ UpdateProcReturn(p, "could not remove members", c)
                  /\ UNCHANGED groups
    /\ UNCHANGED <<directory, soloVarsButLocks>>

\* group.AppendMember for each member to add, then client.AddMembers(ctx, &group)
UpdateProc_AddMembers(p) ==
    /\ procs[p].pc = "groupResourceUpdate:addMembers"
    /\ LET work == UpdateProcMembersWork(p, procs[p].existingMembers)
           membersToAdd == work[procs[p].pc]
           c == <<Call("AddMembers", "groupResourceUpdate", membersToAdd)>>
       IN  \E ok \in BOOLEAN :
             IF ok
             THEN /\ RemoteMembers(procs[p].id,
                                   groups[procs[p].id].members \cup Range(membersToAdd))
                  /\ UpdateProcGoto(p, FirstStep(StepsAfter(UpdateMembersOrder, procs[p].pc), work,
                                                 "groupResourceUpdate:owners"), c)
             ELSE /\ UpdateProcReturn(p, "could not add members", c)
                  /\ UNCHANGED groups
    /\ UNCHANGED <<directory, soloVarsButLocks>>

\* if v, ok := d.GetOk("owners"); ok && d.HasChange("owners") { client.ListOwners ... }
UpdateProc_Owners(p) ==
    /\ procs[p].pc = "groupResourceUpdate:owners"
    /\ \E hasChange \in BOOLEAN :
         IF GetOk(procs[p].desiredOwners) /\ hasChange
         THEN LET c == <<Call("ListOwners", "groupResourceUpdate", <<>>)>>
              IN  \E ok \in BOOLEAN :
                    IF ok
                    THEN LET ex == SetList(groups[procs[p].id].owners)
                             to == FirstStep(UpdateOwnersOrder, UpdateProcOwnersWork(p, ex),
                                             "groupResourceUpdate:read")
                         IN  /\ procs' = [procs EXCEPT ![p].pc = to,
                                                       ![p].existingOwners = ex,
                                                       ![p].listedOwners = TRUE,
                                                       ![p].calls = procs[p].calls \o c]
                             /\ UNCHANGED locks
                    ELSE UpdateProcReturn(p, "could not retrieve owners", c)
         ELSE UpdateProcGoto(p, "groupResourceUpdate:read", <<>>)
    /\ UNCHANGED <<directory, groups, soloVarsButLocks>>

\* group.AppendOwner for each owner to add, then client.AddOwners(ctx, &group)
UpdateProc_AddOwners(p) ==
    /\ procs[p].pc = "groupResourceUpdate:addOwners"
    /\ LET work == UpdateProcOwnersWork(p, procs[p].existingOwners)
           ownersToAdd == work[procs[p].pc]
           c == <<Call("AddOwners", "groupResourceUpdate", ownersToAdd)>>
       IN  \E ok \in BOOLEAN :
             IF ok
             THEN /\ RemoteOwners(procs[p].id, groups[procs[p].id].owners \cup Range(ownersToAdd))
                  /\ UpdateProcGoto(p, FirstStep(StepsAfter(UpdateOwnersOrder, procs[p].pc), work,
                                                 "groupResourceUpdate:read"), c)
             ELSE /\ UpdateProcReturn(p, "could not add owners", c)
                  /\ UNCHANGED groups
    /\ UNCHANGED <<directory, soloVarsButLocks>>

\* client.RemoveOwners(ctx, d.Id(), &ownersForRemoval)
UpdateProc_RemoveOwners(p) ==
    /\ procs[p].pc = "groupResourceUpdate:removeOwners"
    /\ LET work == UpdateProcOwnersWork(p, procs[p].existingOwners)
           ownersForRemoval == work[procs[p].pc]
           c == <<Call("RemoveOwners", "groupResourceUpdate", ownersForRemoval)>>
       IN  \E ok \in BOOLEAN :
             IF ok
             THEN /\ RemoteOwners(procs[p].id, groups[procs[p].id].owners \ Range(ownersForRemoval))
                  /\ UpdateProcGoto(p, FirstStep(StepsAfter(UpdateOwnersOrder, procs[p].pc), work,
                                                 "groupResourceUpdate:read"), c)
             ELSE /\ UpdateProcReturn(p, "could not remove owners", c)
                  /\ UNCHANGED groups
    /\ UNCHANGED <<directory, soloVarsButLocks>>

\* return groupResourceRead(ctx, d, meta), and the deferred unlock
UpdateProc_Read(p) ==
    /\ procs[p].pc = "groupResourceUpdate:read"
    /\ \E outcome \in ReadOutcomes :
         UpdateProcReturn(p, IF outcome \in {"ok", "notfound"} THEN "" ELSE "read: " \o outcome,
                          ReadCalls(outcome))
    /\ UNCHANGED <<directory, groups, soloVarsButLocks>>

\* the steps of invocation p
UpdateProcNext(p) ==
    \/ UpdateProc_Lock(p)
    \/ UpdateProc_Guard(p)
    \/ UpdateProc_Update(p)
    \/ UpdateProc_Members(p)
    \/ UpdateProc_RemoveMembers(p)
    \/ UpdateProc_AddMembers(p)
    \/ UpdateProc_Owners(p)
    \/ UpdateProc_AddOwners(p)
    \/ UpdateProc_RemoveOwners(p)
    \/ UpdateProc_Read(p)

\* Two concurrent updates, of the group "g0" both or of "g0" and "g1"; both
\* groups start with the members and owners held in `members` and `owners`
InitUpdateLock ==
    /\ handler = "groupResourceUpdate"
    /\ pc = "concurrent"
    /\ err = ""
    /\ calls = <<>>
    /\ prev = <<>>
    /\ AppIdle
    /\ application = [ID |-> Nil, AppRoles |-> Nil, Scopes |-> Nil, Owners |-> <<>>]
    /\ desiredOwners = <<>>
    /\ desiredMembers = <<>>
    /\ existingOwners = <<>>
    /\ existingMembers = <<>>
    /\ group = [ID |-> Nil, Owners |-> <<>>, Members |-> <<>>]
    /\ removeInitialOwner = FALSE
    /\ resourceId = ""
    /\ locks = {}
    /\ diff = <<>>
    /\ input = <<>>
    /\ output = <<>>
    /\ members \in {{}, {"u1"}}
    /\ owners = {callerId}
    /\ preventDuplicateNames \in BOOLEAN
    /\ directory = <<Ptr("g0")>>
    /\ groups = [g \in GroupIds |->
                    IF g \in {"g0", "g1"}
                    THEN [exists |-> TRUE, owners |-> owners, members |-> members]
                    ELSE NoGroup]
    /\ \E id2 \in {"g0", "g1"}, dm1, dm2 \in {<<>>, <<"u1">>, <<"u2">>},
          do2 \in {<<>>, <<"o1">>} :
          procs = [p \in Procs |->
                      [pc |-> "groupResourceUpdate", err |-> "", calls |-> <<>>,
                       id |-> IF p = "p1" THEN "g0" ELSE id2,
                       desiredMembers |-> IF p = "p1" THEN dm1 ELSE dm2,
                       desiredOwners |-> IF p = "p1" THEN <<"o1">> ELSE do2,
                       existingMembers |-> <<>>, existingOwners |-> <<>>,
                       listedMembers |-> FALSE, listedOwners |-> FALSE]]

NextUpdateLock ==
    \/ \E p \in Procs : UpdateProc_Lock(p)
    \/ \E p \in Procs : UpdateProc_Guard(p)
    \/ \E p \in Procs : UpdateProc_Update(p)
    \/ \E p \in Procs : UpdateProc_Members(p)
    \/ \E p \in Procs : UpdateProc_RemoveMembers(p)
    \/ \E p \in Procs : UpdateProc_AddMembers(p)
    \/ \E p \in Procs : UpdateProc_Owners(p)
    \/ \E p \in Procs : UpdateProc_AddOwners(p)
    \/ \E p \in Procs : UpdateProc_RemoveOwners(p)
    \/ \E p \in Procs : UpdateProc_Read(p)

SpecUpdateLock == InitUpdateLock /\ [][NextUpdateLock]_vars

\* every invocation keeps running: a handler that can take a step takes it
SpecUpdateLockFair ==
    /\ InitUpdateLock
    /\ [][NextUpdateLock]_vars
    /\ \A p \in Procs : WF_vars(UpdateProcNext(p))

-----------------------------------------------------------------------------
(* Properties of concurrent updates (SpecUpdateLock, SpecUpdateLockFair) *)

\* invocation p is between its tf.LockByName and its return
InCritical(p) == procs[p].pc \notin {"groupResourceUpdate", "done"}

\* invocation p waits in tf.LockByName for a name that is held
Blocked(p) ==
    /\ procs[p].pc = "groupResourceUpdate"
    /\ UpdateLocks(procs[p].id) \cap locks # {}

\* what the update p, run alone on the initial group, leaves as members / owners
AloneMembers(p) ==
    IF procs[p].listedMembers THEN Range(procs[p].desiredMembers) ELSE members
AloneOwners(p) ==
    IF procs[p].listedOwners THEN Range(procs[p].desiredOwners) ELSE owners

\* C16: two concurrent updates of one group id are never both between lock
\* acquisition and release; when both have returned without error the remote
\* members, and the remote owners, are what one of the two updates alone would
\* leave; an update waits for the lock only while an update of the same group
\* id holds it.
C16_UpdatesSerializedPerGroup ==
    /\ \A p, q \in Procs :
          (p # q /\ procs[p].id = procs[q].id) => ~(InCritical(p) /\ InCritical(q))
    /\ (/\ procs["p1"].id = procs["p2"].id
        /\ \A p \in Procs : procs[p].pc = "done" /\ procs[p].err = "")
          => /\ \E p \in Procs : groups[procs[p].id].members = AloneMembers(p)
             /\ \E p \in Procs : groups[procs[p].id].owners = AloneOwners(p)
    /\ \A p \in Procs :
          Blocked(p) => \E q \in Procs \ {p} : InCritical(q) /\ procs[q].id = procs[p].id

\* C16 witness: two updates of the group g0 with different desired members;
\* one has returned without error after reconciling the members, the other
\* holds the lock and has listed the members the first one left.
C16_Witness ==
    /\ procs["p1"].id = procs["p2"].id
    /\ procs["p1"].desiredMembers # procs["p2"].desiredMembers
    /\ procs["p1"].pc = "done" /\ procs["p1"].err = ""
    /\ procs["p1"].listedMembers
    /\ \E i \in DOMAIN procs["p1"].calls : procs["p1"].calls[i].op = "AddMembers"
    /\ InCritical("p2")
    /\ procs["p2"].listedMembers
    /\ Range(procs["p2"].existingMembers) = Range(procs["p1"].desiredMembers)

\* the lock names held are exactly those of the invocations in progress
LocksHeldByRunning ==
    locks = UNION {UpdateLocks(procs[p].id) : p \in {q \in Procs : InCritical(q)}}

\* C17: groupResourceUpdate releases its lock on every return, so that the
\* names held are those of the updates in progress, and an update that waits
\* for the lock eventually acquires it.
C17_LockReleasedOnEveryExit ==
    /\ []LocksHeldByRunning
    /\ \A p \in Procs : (procs[p].pc = "groupResourceUpdate") ~> InCritical(p)

\* C17 witness: an update of g0 returned with an error and released the lock;
\* the other update of g0 has acquired it since.
C17_Witness ==
    /\ procs["p1"].id = procs["p2"].id
    /\ procs["p1"].pc = "done"
    /\ procs["p1"].err = "could not add owners"
    /\ InCritical("p2")
    /\ locks = UpdateLocks(procs["p2"].id)

-----------------------------------------------------------------------------
(* Failure of a relation call (SpecReconcile) *)

\* the error returned for the failure of each add or remove call
RelationCallErrors ==
    [op \in RelationOps |->
        IF handler = "ApplicationSetOwners"
        THEN (IF op = "RemoveOwners" THEN "removing owner"
              ELSE IF op = "AddOwners" THEN "adding owners" ELSE "none")
        ELSE (IF op = "RemoveMembers" THEN "could not remove members"
              ELSE IF op = "AddMembers" THEN "could not add members"
              ELSE IF op = "AddOwners" THEN "could not add owners"
              ELSE "could not remove owners")]

\* the add or remove call whose failure the current run returned
FailedRelationCall == {op \in RelationOps : RelationCallErrors[op] = err}

\* C18: when an add or remove call of a reconciliation fails, the run has
\* ended with that error, the failed call is its last call (no later add,
\* remove or list call, no read-back, no compensating call), and the remote
\* keeps what the calls before it applied.
C18_FailureAbortsWithoutRollback ==
    \A op \in FailedRelationCall :
        /\ pc = "done"
        /\ calls # <<>> /\ calls[Len(calls)].op = op
        /\ (err = "could not add members")
              => members = Range(existingMembers) \ Range(Difference(existingMembers, desiredMembers))
        /\ (err = "could not remove owners")
              => owners = Range(existingOwners) \cup Range(desiredOwners)
        /\ (err = "adding owners")
              => owners = Range(existingOwners) \ Range(Difference(existingOwners, desiredOwners))
        /\ (err \in {"could not add owners", "could not remove owners"} /\ UpdateListedMembers)
              => members = Range(desiredMembers)

\* C18 witness: in an update RemoveMembers was applied, AddMembers failed; the
\* run ended there and the members removed stay removed.
C18_Witness ==
    /\ handler = "groupResourceUpdate"
    /\ pc = "done"
    /\ err = "could not add members"
    /\ Issued("RemoveMembers", "groupResourceUpdate")
    /\ calls[Len(calls)].op = "AddMembers"
    /\ members # Range(existingMembers)
    /\ members # Range(desiredMembers)

-----------------------------------------------------------------------------
(* groupResourceRead and groupResourceDelete as lifecycle calls of their own *)

\* the outcomes client.Get can have for the group id: not found for a group
\* the remote does not hold, the group for one it holds, a failure for either
GetOutcomes(id) ==
    IF groups[id].exists THEN {"ok", "getError"} ELSE {"notfound", "getError"}

\* groupResourceRead(ctx, d, meta)
groupResourceRead_Run ==
    /\ pc = "groupResourceRead"
    /\ \E outcome \in ReadOutcomes :
         /\ outcome \in {"ownersError", "membersError"} \cup GetOutcomes(resourceId)
         /\ outcome \in {"ownersError", "membersError"} => groups[resourceId].exists
         /\ groupResourceRead(outcome)
    /\ UNCHANGED <<handler, prev, appVars, extVars>>
    /\ UNCHANGED <<owners, members, desiredOwners, desiredMembers, existingOwners, existingMembers,
                   group, removeInitialOwner, preventDuplicateNames, directory, locks>>

\* variant of DeleteAfterGet: a group that is not found counts as deleted
DeleteAfterGetForgiving(outcome) ==
    IF outcome = "ok" THEN [pc |-> "groupResourceDelete:delete", err |-> ""]
    ELSE IF outcome = "notfound" THEN [pc |-> "done", err |-> ""]
    ELSE [pc |-> "done", err |-> "retrieving group"]

\* what groupResourceDelete does with the result of client.Get
DeleteAfterGet(outcome) ==
    IF outcome = "ok" THEN [pc |-> "groupResourceDelete:delete", err |-> ""]
    ELSE IF outcome = "notfound" THEN [pc |-> "done", err |-> "Group was not found"]
    ELSE [pc |-> "done", err |-> "retrieving group"]

\* _, status, err := client.Get(ctx, d.Id())
groupResourceDelete_Get ==
    /\ pc = "groupResourceDelete"
    /\ calls' = Append(calls, Call("Get", "groupResourceDelete", <<>>))
    /\ \E outcome \in GetOutcomes(resourceId) :
         /\ pc' = DeleteAfterGet(outcome).pc
         /\ err' = DeleteAfterGet(outcome).err
    /\ UNCHANGED <<handler, prev, appVars, relVars, extVars>>

\* client.Delete(ctx, d.Id())
groupResourceDelete_Delete ==
    /\ pc = "groupResourceDelete:delete"
    /\ calls' = Append(calls, Call("Delete", "groupResourceDelete", <<>>))
    /\ pc' = "done"
    /\ \E ok \in BOOLEAN :
         IF ok
         THEN /\ groups' = [groups EXCEPT ![resourceId] = NoGroup]
              /\ UNCHANGED err
         ELSE /\ err' = "deleting group"
              /\ UNCHANGED groups
    /\ UNCHANGED <<handler, prev, appVars, relVars, diff, procs, input, output>>

\* A read or a delete of the group whose id the state holds, which the remote
\* holds or does not hold
InitReadDelete ==
    /\ handler \in {"groupResourceRead", "groupResourceDelete"}
    /\ pc = handler
    /\ err = ""
    /\ calls = <<>>
    /\ prev = <<>>
    /\ AppIdle
    /\ application = [ID |-> Nil, AppRoles |-> Nil, Scopes |-> Nil, Owners |-> <<>>]
    /\ desiredOwners = <<>>
    /\ desiredMembers = <<>>
    /\ existingOwners = <<>>
    /\ existingMembers = <<>>
    /\ group = [ID |-> Nil, Owners |-> <<>>, Members |-> <<>>]
    /\ removeInitialOwner = FALSE
    /\ locks = {}
    /\ diff = <<>>
    /\ input = <<>>
    /\ output = <<>>
    /\ procs = <<>>
    /\ resourceId \in {"g0", "g1"}
    /\ preventDuplicateNames \in BOOLEAN
    /\ directory = <<>>
    /\ owners \in SUBSET {callerId, "o1"}
    /\ members \in SUBSET {"u1", "u2"}
    /\ \E held \in SUBSET {"g0", "g1"} :
          groups = [g \in GroupIds |->
                       IF g \in held
                       THEN [exists |-> TRUE, owners |-> owners, members |-> members]
                       ELSE NoGroup]

NextReadDelete ==
    \/ groupResourceRead_Run
    \/ groupResourceDelete_Get
    \/ groupResourceDelete_Delete

SpecReadDelete == InitReadDelete /\ [][NextReadDelete]_vars

\* C19: a groupResourceRead of a group the remote does not hold ends in one
\* step, without ListOwners or ListMembers, either without error and with the
\* resource id cleared (not found) or with the error of the failed Get and the
\* id unchanged; no read clears the id in any other case or returns an error
\* with the id changed.
C19_ReadOfMissingGroupClearsId ==
    [][(handler = "groupResourceRead" /\ pc = "groupResourceRead")
          => /\ pc' = "done"
             /\ (~groups[resourceId].exists)
                   => /\ calls' = <<Call("Get", "groupResourceRead", <<>>)>>
                      /\ \/ err' = "" /\ resourceId' = ""
                         \/ err' = "read: getError" /\ resourceId' = resourceId
             /\ (err' # "") => resourceId' = resourceId
             /\ (resourceId' = "")
                   => (err' = "" /\ ~groups[resourceId].exists /\ Len(calls') = 1)]_vars

\* C19 witness: the read of a group the remote does not hold has ended without
\* error, with the id cleared, after the Get call only.
C19_Witness ==
    /\ handler = "groupResourceRead"
    /\ pc = "done"
    /\ err = ""
    /\ resourceId = ""
    /\ calls = <<Call("Get", "groupResourceRead", <<>>)>>
    /\ \E g \in {"g0", "g1"} : ~groups[g].exists

\* C20: groupResourceDelete issues the Delete call only as its second call,
\* after a Get that returned the group; for a group the remote does not hold
\* it ends with an error and without a Delete call.
C20_DeleteOfMissingGroupFails ==
    (handler = "groupResourceDelete") =>
        /\ (pc = "groupResourceDelete:delete")
              => (groups[resourceId].exists /\ err = "" /\ Len(calls) = 1)
        /\ Issued("Delete", "groupResourceDelete")
              => /\ Len(calls) = 2
                 /\ calls[1].op = "Get"
                 /\ calls[2].op = "Delete"
                 /\ err \in {"", "deleting group"}
        /\ (pc = "done" /\ ~Issued("Delete", "groupResourceDelete"))
              => /\ err \in {"Group was not found", "retrieving group"}
                 /\ (err = "Group was not found") => ~groups[resourceId].exists

\* C20 witness: the delete of a group the remote does not hold has ended with
\* the not-found error after the Get call only.
C20_Witness ==
    /\ handler = "groupResourceDelete"
    /\ pc = "done"
    /\ err = "Group was not found"
    /\ ~groups[resourceId].exists
    /\ Len(calls) = 1 /\ calls[1].op = "Get"

-----------------------------------------------------------------------------
(* The duplicate-name guard across the three handlers that carry it *)

\* groupResourceUpdate of the group "g0" on its own
InitUpdate ==
    /\ ExtIdle
    /\ handler = "groupResourceUpdate"
    /\ pc = handler
    /\ err = ""
    /\ calls = <<>>
    /\ prev = <<>>
    /\ AppIdle
    /\ application = [ID |-> Nil, AppRoles |-> Nil, Scopes |-> Nil, Owners |-> <<>>]
    /\ existingOwners = <<>>
    /\ existingMembers = <<>>
    /\ group = [ID |-> Nil, Owners |-> <<>>, Members |-> <<>>]
    /\ removeInitialOwner = FALSE
    /\ locks = {}
    /\ \E few \in FewOwners : owners = few[1] /\ desiredOwners = few[2]
    /\ \E few \in FewMembers : members = few[1] /\ desiredMembers = few[2]
    /\ resourceId = "g0"
    /\ preventDuplicateNames \in BOOLEAN
    /\ directory \in {<<>>, <<Ptr("g0")>>, <<Ptr("g1")>>, <<Ptr("g0"), Ptr("g1")>>,
                      <<Ptr("g0"), Nil>>, <<Nil>>}

\* one run of groupResourceCustomizeDiff, groupResourceCreate or groupResourceUpdate
InitGuard ==
    \/ InitDiff
    \/ InitCreate
    \/ InitUpdate

NextGuard ==
    \/ groupResourceCustomizeDiff_Validate
    \/ groupResourceCustomizeDiff_Lookup
    \/ groupResourceCreate_Guard
    \/ groupResourceCreate_Create
    \/ groupResourceCreate_AddOwners
    \/ groupResourceCreate_AddMembers
    \/ groupResourceCreate_RemoveOwners
    \/ groupResourceCreate_Read
    \/ groupResourceUpdate_Guard
    \/ groupResourceUpdate_Update
    \/ groupResourceUpdate_Members
    \/ groupResourceUpdate_RemoveMembers
    \/ groupResourceUpdate_AddMembers
    \/ groupResourceUpdate_Owners
    \/ groupResourceUpdate_AddOwners
    \/ groupResourceUpdate_RemoveOwners
    \/ groupResourceUpdate_Read

SpecGuard == InitGuard /\ [][NextGuard]_vars

\* tf.ImportAsDuplicateDiag / tf.ImportAsDuplicateError for the group found
DuplicateNameErrors == {"duplicate of " \o g : g \in GroupIds}

\* C21: with prevent_duplicate_names false, groupResourceCustomizeDiff,
\* groupResourceCreate and groupResourceUpdate make no name lookup and never end
\* with a duplicate-name error: a group whose name another group carries is
\* created or renamed.
C21_GuardIsOptIn ==
    ~preventDuplicateNames =>
        /\ ~Issued("List", "groupFindByName")
        /\ err \notin DuplicateNameErrors
        /\ err # "could not check for existing groups"
        /\ (handler = "groupResourceCustomizeDiff" /\ pc = "done"
              => err \in {"", "types must contain Unified", "mail_enabled must be true"})
        /\ (handler = "groupResourceUpdate" /\ pc # handler
              => pc = "groupResourceUpdate:update" \/ Issued("Update", handler))

\* a group is created although the lookup, had it been made, would have found a
\* group with the name
C21_Witness ==
    /\ ~preventDuplicateNames
    /\ handler = "groupResourceCreate"
    /\ pc = "done"
    /\ err = ""
    /\ directory = <<Ptr("g1"), Ptr(NewGroupId)>>

-----------------------------------------------------------------------------
(* The resource id during groupResourceCreate (SpecCreate) *)

\* the errors groupResourceCreate returns before d.SetId: from the duplicate-name
\* check, uuid.GenerateUUID, client.Create, and a created group without id
ErrorsBeforeSetId ==
    {"could not check for existing groups", "nil object ID",
     "failed to generate mailNickname", "creating group"}
        \cup DuplicateNameErrors

\* C22: in groupResourceCreate the resource id is set only once client.Create
\* has returned a group with an id; when the duplicate-name check rejects, the
\* Create call fails or the created group has no id, the id stays unset and no
\* owner or member call is issued.
C22_IdAbsentUntilCreated ==
    /\ resourceId # ""
          => /\ Issued("Create", "groupResourceCreate")
             /\ group.ID = Ptr(resourceId)
             /\ err \notin ErrorsBeforeSetId
    /\ ~Issued("Create", "groupResourceCreate") => resourceId = ""
    /\ (pc = "done" /\ err \in ErrorsBeforeSetId)
          => /\ resourceId = ""
             /\ \A i \in DOMAIN calls : calls[i].op \notin RelationOps

\* C22 witness: client.Create made the group but returned it without id; the
\* create has ended with the id unset and no owner or member call issued.
C22_Witness ==
    /\ pc = "done"
    /\ err = "nil object ID"
    /\ Issued("Create", "groupResourceCreate")
    /\ Ptr(NewGroupId) \in Range(directory)
    /\ resourceId = ""
    /\ calls[Len(calls)].op = "Create"

-----------------------------------------------------------------------------
(* utils.Difference on its own *)

\* sequences of at most MaxLen ids, repetitions included
BoundedSeqs(S) == UNION {[1..n -> S] : n \in 0..MaxLen}

\* variant of Difference_Apply: the two arguments exchanged
Difference_ApplySwapped ==
    /\ pc = "Difference"
    /\ output' = Difference(input.b, input.a)
    /\ pc' = "done"
    /\ UNCHANGED <<handler, err, calls, prev, diff, procs, groups, input>>
    /\ UNCHANGED <<appVars, relVars>>

\* utils.Difference(a, b), as called for membersForRemoval, membersToAdd,
\* ownersForRemoval and ownersToAdd
Difference_Apply ==
    /\ pc = "Difference"
    /\ output' = Difference(input.a, input.b)
    /\ pc' = "done"
    /\ UNCHANGED <<handler, err, calls, prev, diff, procs, groups, input>>
    /\ UNCHANGED <<appVars, relVars>>

InitDifference ==
    /\ handler = "Difference"
    /\ pc = handler
    /\ err = ""
    /\ calls = <<>>
    /\ prev = <<>>
    /\ AppIdle
    /\ application = [ID |-> Nil, AppRoles |-> Nil, Scopes |-> Nil, Owners |-> <<>>]
    /\ owners = {}
    /\ members = {}
    /\ desiredOwners = <<>>
    /\ desiredMembers = <<>>
    /\ existingOwners = <<>>
    /\ existingMembers = <<>>
    /\ group = [ID |-> Nil, Owners |-> <<>>, Members |-> <<>>]
    /\ removeInitialOwner = FALSE
    /\ resourceId = ""
    /\ preventDuplicateNames = FALSE
    /\ directory = <<>>
    /\ locks = {}
    /\ diff = <<>>
    /\ procs = <<>>
    /\ groups = <<>>
    /\ input \in [a : BoundedSeqs(ExistingMemberIds \cup ConfigMemberIds),
                  b : BoundedSeqs(ExistingMemberIds \cup ConfigMemberIds)]
    /\ output = <<>>

NextDifference ==
    \/ Difference_Apply

SpecDifference == InitDifference /\ [][NextDifference]_vars

\* the positions of s whose element is not in t
Kept(s, t) == {i \in DOMAIN s : \A j \in DOMAIN t : s[i] # t[j]}

\* r lists the elements of s at the positions K, in the order of s
ListsInOrder(r, s, K) ==
    /\ Len(r) = Cardinality(K)
    /\ \E f \in [DOMAIN r -> K] :
          /\ \A i, j \in DOMAIN r : i < j => f[i] < f[j]
          /\ \A i \in DOMAIN r : r[i] = s[f[i]]

-----------------------------------------------------------------------------
(* The relation after a reconciliation (SpecReconcile) *)

\* the handler has returned without error
ReturnedNil(h) == handler = h /\ pc = "done" /\ err = ""

\* C24: after groupResourceUpdate returns without error, a changed desired
\* members (owners) set, the empty set included, is the remote members (owners)
\* set of the group; after ApplicationSetOwners returns without error the
\* application's remote owners are desiredOwners.
C24_RelationEqualsDesired ==
    /\ ReturnedNil("groupResourceUpdate")
          => /\ (UpdateListedMembers \/ desiredMembers = <<>>) => members = Range(desiredMembers)
             /\ (UpdateListedOwners \/ desiredOwners = <<>>) => owners = Range(desiredOwners)
    /\ (ReturnedNil("ApplicationSetOwners") /\ AppListedOwners)
          => owners = Range(desiredOwners)

\* the part of C24 that holds: a relation whose block ran (a non-empty desired
\* set that changed) equals the desired set, and so do the application's owners
C24_ListedRelationEqualsDesired ==
    /\ ReturnedNil("groupResourceUpdate")
          => /\ UpdateListedMembers => members = Range(desiredMembers)
             /\ UpdateListedOwners => owners = Range(desiredOwners)
    /\ (ReturnedNil("ApplicationSetOwners") /\ AppListedOwners)
          => owners = Range(desiredOwners)

-----------------------------------------------------------------------------
(* Running a function again after it failed partway *)

\* a nested-collection replacer or ApplicationSetOwners, run any number of times
InitRetry ==
    \/ InitReplacer
    \/ (InitReconcile /\ handler = "ApplicationSetOwners")

NextRetry ==
    \/ ApplicationSetAppRoles_Get
    \/ ApplicationSetAppRoles_Disable
    \/ ApplicationSetAppRoles_Replace
    \/ ApplicationSetOAuth2PermissionScopes_Get
    \/ ApplicationSetOAuth2PermissionScopes_Disable
    \/ ApplicationSetOAuth2PermissionScopes_Replace
    \/ ApplicationSetOwners_List
    \/ ApplicationSetOwners_Remove
    \/ ApplicationSetOwners_Add
    \/ Again

SpecRetry == InitRetry /\ [][NextRetry]_vars

\* the previous run ended with an error
AfterFailure == prev # <<>> /\ ~prev[1].ok

\* the previous run failed at its second mutating call, the first one applied
AfterPartialFailure ==
    /\ AfterFailure
    /\ \/ {<<"RemoveOwners", handler>>, <<"AddOwners", handler>>} \subseteq prev[1].ops
       \/ {<<"Update", "disable">>, <<"Update", "replace">>} \subseteq prev[1].ops

\* C25: a run of ApplicationSetOwners or of a nested-collection replacer that
\* follows a failed run with the same desired value and returns without error
\* leaves the remote relation or collection equal to the desired value; the
\* owners it is about to add are not owners yet and those it is about to remove
\* are owners still.
C25_RetryConverges ==
    AfterFailure =>
        /\ (handler = "ApplicationSetOwners")
              => /\ Succeeded => owners = Range(desiredOwners)
                 /\ (pc = "ApplicationSetOwners:addOwners")
                       => Range(application.Owners
                                  \o ApplicationSetOwnersWork(existingOwners)[pc])
                             \cap owners = {}
                 /\ (pc = "ApplicationSetOwners:removeOwners")
                       => Range(ApplicationSetOwnersWork(existingOwners)[pc]) \subseteq owners
        /\ (handler \in {"ApplicationSetAppRoles", "ApplicationSetOAuth2PermissionScopes"}
              /\ Succeeded)
              => /\ RemoteColl # Nil
                 /\ DeepEqual(Deref(RemoteColl), Deref(Desired))

\* C25 witness: ApplicationSetOwners removed owners and failed to add; run
\* again it has added the missing owners without another removal and returned
\* with the owners as desired.
C25_Witness ==
    /\ handler = "ApplicationSetOwners"
    /\ AfterPartialFailure
    /\ Succeeded
    /\ Issued("AddOwners", handler)
    /\ ~Issued("RemoveOwners", handler)
    /\ owners = Range(desiredOwners)

\* the replacer's case of the same: the disable Update was applied and the
\* replace Update failed; run again, the replacer has sent both and returned
\* with the collection as desired
C25_ReplacerRetried ==
    /\ handler = "ApplicationSetAppRoles"
    /\ AfterPartialFailure
    /\ Succeeded
    /\ Len(Updates) = 2
    /\ DeepEqual(Deref(RemoteColl), Deref(Desired))

-----------------------------------------------------------------------------
(* Errors of the nested-collection replacer (SpecReplacer) *)

\* C26: in a nested-collection replacer each step runs only after the one
\* before it succeeded: with a nil application ID no remote call is made; a Get
\* that fails or finds nothing is followed by no Update; a failed disable Update
\* is not followed by the replace Update; each of these ends with an error.
C26_StepsRunAfterSuccess ==
    /\ application.ID = Nil
          => /\ calls = <<>>
             /\ Returned => err = "nil ID"
    /\ err \in {"not found", "retrieving"}
          => /\ Returned
             /\ calls = <<Call("Get", handler, <<>>)>>
    /\ err = "disabling"
          => /\ Returned
             /\ Len(Updates) = 1
             /\ calls[Len(calls)] = Updates[1]
             /\ Updates[1].site = "disable"
    /\ \A i \in DOMAIN calls :
          calls[i].op = "Update"
             => /\ calls[1].op = "Get"
                /\ (calls[i].site = "replace" /\ HasExisting(app))
                      => (i > 1 /\ calls[i - 1].site = "disable")

\* C26 witness: the disable Update failed; the replacer has returned the error
\* with that Update as its last call.
C26_Witness ==
    /\ Returned
    /\ err = "disabling"
    /\ Len(calls) = 2
    /\ calls[2].site = "disable"

-----------------------------------------------------------------------------
(* The duplicate-name guard of groupResourceUpdate (SpecGuard) *)

\* the name lookup of the update returned, every group of its result carrying an id
UpdateLookedUp ==
    /\ handler = "groupResourceUpdate"
    /\ preventDuplicateNames
    /\ Issued("List", "groupFindByName")
    /\ err # "could not check for existing groups"
    /\ \A i \in DOMAIN directory : directory[i] # Nil

\* C27: with the guard on, groupResourceUpdate ends with the duplicate-name
\* error, having issued no Update and no relation call, exactly when the lookup
\* returns a group whose id is not the id of the group under update; when the
\* lookup returns that group alone, the update goes on to client.Update.
C27_UpdateRejectsOtherGroupsOnly ==
    UpdateLookedUp =>
        /\ err \in DuplicateNameErrors
              <=> \E i \in DOMAIN directory : Deref(directory[i]) # Deref(group.ID)
        /\ err \in DuplicateNameErrors
              => /\ pc = "done"
                 /\ calls = <<Call("List", "groupFindByName", <<>>)>>
                 /\ \E i \in DOMAIN directory :
                       /\ Deref(directory[i]) # Deref(group.ID)
                       /\ err = "duplicate of " \o Deref(directory[i])
        /\ err \notin DuplicateNameErrors
              => (pc = "groupResourceUpdate:update" \/ Issued("Update", handler))

\* C27 witness: the lookup returned the group under update alone; the update
\* went on and has completed.
C27_Witness ==
    /\ UpdateLookedUp
    /\ directory = <<group.ID>>
    /\ Issued("Update", handler)
    /\ pc = "done"
    /\ err = ""

-----------------------------------------------------------------------------
(* ApplicationFindByName *)

\* display names: the one asked for and names a loose server-side filter could
\* return with it (another letter case, a longer name)
AppNames == {"app", "APP", "app2"}

\* msgraph.Application as listed: object id and DisplayName (*string)
ListedApps == [id : {"a1", "a2"}, DisplayName : {Nil} \cup {Ptr(n) : n \in AppNames}]

\* the *[]msgraph.Application of client.List: nil, or at most MaxLen applications
ListResults == {Nil} \cup {Ptr(l) : l \in BoundedSeqs(ListedApps)}

\* "app" and "APP" are one name but for the letter case
FoldName(n) == IF n = "APP" THEN "app" ELSE n

\* variant of NameMatches: the comparison ignores the letter case
NameMatchesFold(a, displayName) ==
    a.DisplayName # Nil /\ FoldName(Deref(a.DisplayName)) = FoldName(displayName)

\* app.DisplayName != nil && *app.DisplayName == displayName
NameMatches(a, displayName) ==
    a.DisplayName # Nil /\ Deref(a.DisplayName) = displayName

\* the loop over *result: the first application whose name matches, or nil
FirstMatch(res, displayName) ==
    IF res = Nil THEN Nil
    ELSE LET l == SelectSeq(Deref(res), LAMBDA a : NameMatches(a, displayName))
         IN  IF l = <<>> THEN Nil ELSE Ptr(l[1])

\* ApplicationFindByName(ctx, client, displayName): client.List with the
\* filter, then the loop over the result
ApplicationFindByName_List ==
    /\ pc = "ApplicationFindByName"
    /\ calls' = Append(calls, Call("List", "ApplicationFindByName",
                                   <<"displayName eq '" \o input.displayName \o "'">>))
    /\ \E ok \in BOOLEAN :
         IF ok
         THEN /\ output' = FirstMatch(input.result, input.displayName)
              /\ UNCHANGED err
         ELSE /\ output' = Nil
              /\ err' = "unable to list Applications"
    /\ pc' = "done"
    /\ UNCHANGED <<handler, prev, diff, procs, groups, input>>
    /\ UNCHANGED <<appVars, relVars>>

InitFindByName ==
    /\ handler = "ApplicationFindByName"
    /\ pc = handler
    /\ err = ""
    /\ calls = <<>>
    /\ prev = <<>>
    /\ AppIdle
    /\ application = [ID |-> Nil, AppRoles |-> Nil, Scopes |-> Nil, Owners |-> <<>>]
    /\ RelIdle
    /\ diff = <<>>
    /\ procs = <<>>
    /\ groups = <<>>
    /\ input \in [displayName : {"app"}, result : ListResults]
    /\ output = Nil

NextFindByName ==
    \/ ApplicationFindByName_List

SpecFindByName == InitFindByName /\ [][NextFindByName]_vars

\* the positions of the listed applications whose display name is exactly the one asked for
ExactlyNamed ==
    IF input.result = Nil THEN {}
    ELSE {i \in DOMAIN Deref(input.result) :
            Deref(input.result)[i].DisplayName = Ptr(input.displayName)}

\* C28: ApplicationFindByName returns an application exactly when the listed
\* results hold one whose display name equals the requested name letter for
\* letter, and it returns the first of them; an application without name, with
\* a longer name or with the name in another letter case is never returned.
C28_FindByNameExactFirst ==
    (handler = "ApplicationFindByName" /\ pc = "done" /\ err = "")
        => /\ output # Nil <=> ExactlyNamed # {}
           /\ output # Nil
                 => /\ Deref(output).DisplayName = Ptr(input.displayName)
                    /\ \E i \in ExactlyNamed :
                          /\ Deref(output) = Deref(input.result)[i]
                          /\ \A j \in ExactlyNamed : i <= j

\* C28 witness: the list holds the name in another letter case first and the
\* exact name second; the second application is returned.
C28_Witness ==
    /\ handler = "ApplicationFindByName" /\ pc = "done" /\ err = ""
    /\ input.result # Nil
    /\ Len(Deref(input.result)) = 2
    /\ Deref(input.result)[1].DisplayName = Ptr("APP")
    /\ Deref(input.result)[1].id = "a1"
    /\ Deref(input.result)[2].id = "a2"
    /\ output = Ptr(Deref(input.result)[2])

-----------------------------------------------------------------------------
(* The add and remove sets of a reconciliation (SpecReconcile) *)

\* the ids carried by the calls `op` of the current run of the reconciler
Carried(op) ==
    UNION {Range(calls[i].arg) :
             i \in {j \in DOMAIN calls : calls[j].op = op /\ calls[j].site = handler}}

\* C29: in groupResourceUpdate (members, owners) and ApplicationSetOwners every
\* id of an add call is desired and was not fetched, every id of a remove call
\* was fetched and is not desired, and no id is both added and removed.
C29_AddAndRemoveSets ==
    /\ Carried("AddMembers") \subseteq Range(desiredMembers) \ Range(existingMembers)
    /\ Carried("RemoveMembers") \subseteq Range(existingMembers) \ Range(desiredMembers)
    /\ Carried("AddOwners") \subseteq Range(desiredOwners) \ Range(existingOwners)
    /\ Carried("RemoveOwners") \subseteq Range(existingOwners) \ Range(desiredOwners)
    /\ Carried("AddMembers") \cap Carried("RemoveMembers") = {}
    /\ Carried("AddOwners") \cap Carried("RemoveOwners") = {}

\* C29 witness: an update whose fetched and desired owners overlap, and so do
\* its members, has issued its four relation calls.
C29_Witness ==
    /\ handler = "groupResourceUpdate"
    /\ prev = <<>>
    /\ Range(existingOwners) \cap Range(desiredOwners) # {}
    /\ Range(existingMembers) \cap Range(desiredMembers) # {}
    /\ Carried("AddMembers") # {}
    /\ Carried("RemoveMembers") # {}
    /\ Carried("AddOwners") # {}
    /\ Carried("RemoveOwners") # {}

-----------------------------------------------------------------------------
(* A create that fails after the group exists (SpecCreate) *)

\* AddOwners or AddMembers of the create failed
FailedAfterCreate == err \in {"could not add owners", "could not add members"}

\* C30: when AddOwners or AddMembers of groupResourceCreate fails, the create
\* ends with the resource id set to the new group's id, without a RemoveOwners
\* call and with the acting principal still an owner; a created group without
\* resource id has the acting principal as owner until the read-back.
C30_FailedCreateKeepsIdAndOwner ==
    /\ FailedAfterCreate
          => /\ pc = "done"
             /\ resourceId = NewGroupId
             /\ group.ID = Ptr(NewGroupId)
             /\ ~Issued("RemoveOwners", "groupResourceCreate")
             /\ ~Issued("Get", "groupResourceRead")
             /\ callerId \in owners
    /\ (Issued("Create", "groupResourceCreate") /\ err # "creating group"
          /\ ~Issued("Get", "groupResourceRead"))
          => (resourceId = NewGroupId \/ callerId \in owners)

\* C30 witness: the create added owners that do not name the acting principal
\* and then failed to add members; the id is set and the principal is an owner.
C30_Witness ==
    /\ pc = "done"
    /\ err = "could not add members"
    /\ Issued("AddOwners", "groupResourceCreate")
    /\ ~OwnersNameCaller
    /\ removeInitialOwner
    /\ resourceId = NewGroupId
    /\ callerId \in owners
    /\ calls[Len(calls)].op = "AddMembers"

====
